---- MODULE Spec2Model ----
(***************************************************************************)
(* A model of the communication triage server: the multi-user server       *)
(* (src/unnamed/part_001) and the single-user server (src/server.js),      *)
(* which share the helpers isDuplicate / saveToSupabase /                  *)
(* verifySlackSignature and the pending_actions table whose schema is      *)
(* src/unnamed/part_000.                                                   *)
(*                                                                         *)
(* Every request handler is an async function: it runs without             *)
(* interruption between two awaits, so one action of the model is the      *)
(* code from one await to the next.  Strings are TLA+ strings (\o is the   *)
(* template-literal concatenation of the code).                            *)
(***************************************************************************)
EXTENDS Integers, Sequences, FiniteSets, TLC

\* JavaScript undefined / null, and SQL NULL for a column an insert does not write.
Null == "null"

----------------------------------------------------------------------------
(* Bounds of the model. *)

\* Number of requests one behaviour receives; their handlers interleave freely.
MaxTasks == 2
\* Storage calls that may fail in one behaviour.
MaxFaults == 2
\* Seconds the clock may advance past Epoch.
MaxTicks == 1

\* The clock value of the initial state (Date.now() / 1000).
Epoch == 1000

TaskIds == 1..MaxTasks

----------------------------------------------------------------------------
(* Program constants. *)

\* 60 * 5: the freshness window of verifySlackSignature, in seconds.
FiveMinutes == 300
\* Byte length of 'v0=' + the hex digest of HMAC-SHA256 (3 + 64).
SignatureBytes == 67

----------------------------------------------------------------------------
(* State. *)

VARIABLES
  server,           \* which server file runs: "multi" (part_001) or "legacy" (server.js)
  env,              \* process.env: SLACK_SIGNING_SECRET, SLACK_BOT_TOKEN
  now,              \* Math.floor(Date.now() / 1000)
  pending_actions,  \* the pending_actions table, rows in insertion order
  inserted,         \* history: for each row, the task and saveToSupabase arguments it came from
  user_slack_tokens,\* the user_slack_tokens table
  user_gmail_tokens,\* the user_gmail_tokens table
  mailbox,          \* the email provider: address -> messages, newest first
  oauth2Client,     \* the credentials set on the module-level OAuth2 client (Null: none)
  tasks,            \* the request handlers: position, request, locals, response
  faultsLeft        \* storage failures still to come

vars == <<server, env, now, pending_actions, inserted, user_slack_tokens,
          user_gmail_tokens, mailbox, oauth2Client, tasks, faultsLeft>>

----------------------------------------------------------------------------
(* JSON bodies.  A raw body is the bytes on the wire: a JSON value in some  *)
(* formatting.  express.json() parses it; JSON.stringify always emits the   *)
(* compact formatting, whatever formatting the bytes had.                   *)

JSONparse(raw) == raw.value

JSONstringify(value) == [value |-> value, fmt |-> "compact"]

\* The formattings a sender may give the same JSON value: as JSON.stringify emits
\* it, or otherwise (insignificant whitespace, escaped characters such as "\/").
Formats == {"compact", "spaced"}

NoEvent ==
  [type |-> Null, channel_type |-> Null, bot_id |-> Null, subtype |-> Null,
   channel |-> Null, ts |-> Null, user |-> Null, text |-> Null]

DMEvent(channel, ts, user, text) ==
  [type |-> "message", channel_type |-> "im", bot_id |-> Null, subtype |-> Null,
   channel |-> channel, ts |-> ts, user |-> user, text |-> text]

EventCallback(team, event) ==
  [type |-> "event_callback", challenge |-> Null, team_id |-> team, event |-> event]

UrlVerification(challenge) ==
  [type |-> "url_verification", challenge |-> challenge, team_id |-> Null,
   event |-> NoEvent]

----------------------------------------------------------------------------
(* Signatures.  HMAC-SHA256 is idealised: the digest determines key and     *)
(* message.  A header value is [set, val]; a string that is compared as     *)
(* bytes is [bytes, text].                                                  *)

NoHeader == [set |-> FALSE]
Header(v) == [set |-> TRUE, val |-> v]

\* An optional field of a JSON body, in the same form.
Omitted == [set |-> FALSE]
Given(v) == [set |-> TRUE, val |-> v]

HmacSha256Hex(key, msg) == [key |-> key, msg |-> msg]

\* 'v0:' + timestamp + ':' + body
SigBasestring(timestamp, body) == <<"v0:", timestamp, ":", body>>

\* 'v0=' + digest
SignatureOf(key, timestamp, body) ==
  [bytes |-> SignatureBytes,
   text |-> <<"v0=", HmacSha256Hex(key, SigBasestring(timestamp, body))>>]

\* Mutant of IsStale: the comparison turned round.
IsStale_Inverted(timestamp, clock) ==
  /\ timestamp.set
  /\ timestamp.val > clock - FiveMinutes

\* parseInt(timestamp) < fiveMinutesAgo; parseInt(undefined) is NaN and NaN < x is false.
IsStale(timestamp, clock) ==
  /\ timestamp.set
  /\ timestamp.val < clock - FiveMinutes

\* crypto.timingSafeEqual(Buffer.from(a), Buffer.from(b)): Buffer.from(undefined)
\* throws a TypeError, buffers of different byte length throw a RangeError.
TimingSafeEqual(mine, given) ==
  IF ~given.set THEN "throw"
  ELSE IF given.val.bytes # mine.bytes THEN "throw"
  ELSE IF given.val = mine THEN "true" ELSE "false"

\* verifySlackSignature(req): "true", "false" or "throw".  req.body is the parsed
\* body, so the signature is recomputed over JSON.stringify(req.body).
verifySlackSignature(req, secret, clock) ==
  IF secret = Null THEN "true"
  ELSE IF IsStale(req.timestamp, clock) THEN "false"
  ELSE TimingSafeEqual(
         SignatureOf(secret, req.timestamp, JSONstringify(JSONparse(req.raw))),
         req.signature)

----------------------------------------------------------------------------
(* Links and keys. *)

createGmailLink(messageId) == "https://mail.google.com/mail/u/0/#inbox/" \o messageId

\* Mutant of createSlackLink: the link leaves the channel out.
createSlackLink_WithoutChannel(teamId, channelId, messageTs) ==
  "https://slack.com/app_redirect?team=" \o teamId \o "&message_ts=" \o messageTs

createSlackLink(teamId, channelId, messageTs) ==
  "https://slack.com/app_redirect?team=" \o teamId \o "&channel=" \o channelId
    \o "&message_ts=" \o messageTs

\* `${teamId}-${channelId}-${messageTs}`
SlackMessageId(teamId, channelId, messageTs) ==
  teamId \o "-" \o channelId \o "-" \o messageTs

----------------------------------------------------------------------------
(* The pending_actions table. *)

\* The value of a column of a row: NULL when the insert did not write it.
Col(row, c) == IF c \in DOMAIN row THEN row[c] ELSE Null

\* idx_pending_actions_message_unique: UNIQUE (message_id, platform)
\* WHERE message_id IS NOT NULL.  platform defaults to 'manual'.
PlatformOf(row) == IF "platform" \in DOMAIN row THEN row.platform ELSE "manual"

UniqueViolation(table, row) ==
  /\ Col(row, "message_id") # Null
  /\ \E i \in 1..Len(table) :
        /\ Col(table[i], "message_id") = Col(row, "message_id")
        /\ PlatformOf(table[i]) = PlatformOf(row)

\* Mutant of isDuplicateMulti: the query filters on the message_id column, which
\* the insert of part_001 does not write.
isDuplicateMulti_ByMessageId(table, messageLink, platform) ==
  IF messageLink = Null \/ messageLink = "" THEN FALSE
  ELSE \E i \in 1..Len(table) :
         /\ Col(table[i], "message_id") = messageLink
         /\ Col(table[i], "platform_tag") = platform

\* isDuplicate of part_001: .eq('message_link', messageLink).eq('platform_tag', platform)
isDuplicateMulti(table, messageLink, platform) ==
  IF messageLink = Null \/ messageLink = "" THEN FALSE
  ELSE \E i \in 1..Len(table) :
         /\ Col(table[i], "message_link") = messageLink
         /\ Col(table[i], "platform_tag") = platform

\* isDuplicate of server.js: .eq('message_id', messageId).eq('platform', platform)
isDuplicateLegacy(table, messageId, platform) ==
  \E i \in 1..Len(table) :
     /\ Col(table[i], "message_id") = messageId
     /\ PlatformOf(table[i]) = platform

\* Mutant of isDuplicate: the query of part_001 also filters on the tenant.
isDuplicate_PerTenant(srv, table, args) ==
  IF srv = "multi"
    THEN \E i \in 1..Len(table) :
            /\ Col(table[i], "message_link") = args.url
            /\ Col(table[i], "platform_tag") = args.platform
            /\ Col(table[i], "user_id") = args.user_id
  ELSE isDuplicateLegacy(table, args.messageId, args.platform)

\* The key saveToSupabase hands to isDuplicate: url in part_001, messageId in server.js.
isDuplicate(srv, table, args) ==
  IF srv = "multi" THEN isDuplicateMulti(table, args.url, args.platform)
  ELSE isDuplicateLegacy(table, args.messageId, args.platform)

\* Mutant of RowMulti: the row is stored without its owner.
RowMulti_WithoutUser(id, args) ==
  [id |-> id,
   task_text |-> args.sender \o ": " \o args.summary,
   platform_tag |-> args.platform,
   sender_name |-> args.sender,
   message_link |-> args.url,
   user_id |-> Null]

\* The row saveToSupabase inserts.
RowMulti(id, args) ==
  [id |-> id,
   task_text |-> args.sender \o ": " \o args.summary,
   platform_tag |-> args.platform,
   sender_name |-> args.sender,
   message_link |-> args.url,
   user_id |-> args.user_id]

RowLegacy(id, args, clock) ==
  [id |-> id,
   sender |-> args.sender,
   summary |-> args.summary,
   url |-> args.url,
   platform |-> args.platform,
   message_id |-> args.messageId,
   created_at |-> clock]

NewRow(srv, id, args, clock) ==
  IF srv = "multi" THEN RowMulti(id, args) ELSE RowLegacy(id, args, clock)

----------------------------------------------------------------------------
(* Request handlers (tasks). *)

NoArgs ==
  [sender |-> Null, summary |-> Null, url |-> Null, platform |-> Null,
   messageId |-> Null, user_id |-> Null]

NoReq == [kind |-> Null]

IdleTask ==
  [pc |-> "idle", route |-> Null, req |-> NoReq, status |-> 0, reply |-> Null,
   log |-> {}, user_id |-> Null, token |-> Null, args |-> NoArgs,
   saveResult |-> "none", rejected |-> FALSE, threw |-> FALSE, nsaved |-> 0,
   again |-> FALSE, dupErr |-> FALSE, verified |-> "none", at |-> 0,
   msgs |-> <<>>, i |-> 0, nresults |-> 0, nfiltered |-> 0,
   lookups |-> 0, apiCalls |-> 0, credRows |-> 0, dupAnswer |-> "none",
   profile |-> "none", used |-> {}]

\* A handler that has just been entered for request req on the given route.
NewTask(route, req) ==
  [IdleTask EXCEPT !.pc = route \o "_start", !.route = route, !.req = req]

\* Mutant of Respond: the status is sent without a body.
Respond_StatusOnly(tk, status, reply) ==
  [tk EXCEPT !.pc = "done", !.status = status]

\* res.status(status).send(reply) as the handler's last statement.
Respond(tk, status, reply) ==
  [tk EXCEPT !.pc = "done", !.status = status, !.reply = reply]

Logged(tk, entry) == [tk EXCEPT !.log = @ \cup {entry}]

\* What becomes of a request whose async handler throws outside any try block:
\* express 4 leaves the promise rejection unhandled and never answers (status 0),
\* express 5 passes it to the default error handler, which answers 500.
UnhandledOutcomes == {0, 500}

\* Mutant of CatchStatus: every catch block acknowledges.
CatchStatus_AlwaysAck(route) == 200

\* The status a handler's catch block answers with once saveToSupabase or a
\* provider call has thrown: the webhooks acknowledge, the sync reports.
CatchStatus(route) ==
  IF route = "gmail_sync" THEN 500 ELSE 200

\* What the catch block sends: the email webhook 'Error logged', the sync
\* { error: error.message }, the chat webhook falls through to its final 'OK'.
CatchReply(route) ==
  IF route \in {"gmail_webhook", "legacy_gmail_webhook"} THEN "Error logged"
  ELSE IF route = "gmail_sync" THEN "error"
  ELSE "OK"

\* Whether a row inserted for the same message is already stored.
SameMessageStored(hist, args) ==
  \E k \in 1..Len(hist) :
     /\ hist[k].url = args.url
     /\ hist[k].messageId = args.messageId
     /\ hist[k].platform = args.platform

\* The handler calls saveToSupabase(args).
CallSave(tk, args, hist) ==
  [tk EXCEPT !.pc = "dedup", !.args = args, !.saveResult = "none",
             !.rejected = FALSE, !.dupErr = FALSE, !.dupAnswer = "none",
             !.again = SameMessageStored(hist, args)]

\* The handler has left its message loop: it answers 200.
GmailFinish(tk) == Respond(tk, 200, "OK")

\* Go on with the message after the current one, or leave the loop.
GmailNext(tk) ==
  IF tk.i + 1 > Len(tk.msgs) THEN GmailFinish([tk EXCEPT !.i = @ + 1])
  ELSE [tk EXCEPT !.pc = IF tk.route = "legacy_gmail_webhook" THEN "legacy_get"
                         ELSE "gmail_get",
                  !.i = @ + 1]

\* Where the handler goes when saveToSupabase has returned: the chat webhook
\* answers, the email handlers go on with the next message.
AfterSave(tk) ==
  IF tk.route = "slack_webhook" THEN Respond(tk, 200, "OK")
  ELSE GmailNext([tk EXCEPT !.nresults =
                    IF tk.route = "gmail_sync" \/ tk.saveResult = "saved"
                    THEN @ + 1 ELSE @])

\* Mutant of AfterThrow: the error is logged and the loop goes on with the next
\* message.
AfterThrow_Continues(tk) == GmailNext(Logged(tk, "error:" \o tk.route))

\* Where the handler goes when saveToSupabase (or a provider call) has thrown: to
\* its catch block, which logs the error and answers.
AfterThrow(tk) ==
  Respond(Logged(tk, "error:" \o tk.route), CatchStatus(tk.route), CatchReply(tk.route))

----------------------------------------------------------------------------
(* POST /slack/webhook *)

\* text.length > 100 ? text.substring(0, 100) + '...' : text
SummaryMax == 100

\* Mutant of SlackSummary: a text of exactly SummaryMax characters is cut too.
SlackSummary_CutsAtLimit(text) ==
  IF Len(text) >= SummaryMax THEN SubSeq(text, 1, SummaryMax) \o "..." ELSE text

SlackSummary(text) ==
  IF Len(text) > SummaryMax THEN SubSeq(text, 1, SummaryMax) \o "..." ELSE text

\* event?.type === 'message' && event?.channel_type === 'im'
IsDirectMessage(event) == event.type = "message" /\ event.channel_type = "im"

\* Mutant of IsBotOrSubtype: only the bot marker is looked at.
IsBotOrSubtype_BotOnly(event) == event.bot_id # Null

\* event.bot_id || event.subtype
IsBotOrSubtype(event) == event.bot_id # Null \/ event.subtype # Null

\* The arguments of the handler's saveToSupabase call.
SlackSaveArgs(srv, body, senderName, user_id) ==
  LET event == body.event
      text == IF event.text = Null \/ event.text = "" THEN "(No message text)"
              ELSE event.text
  IN [sender |-> senderName,
      summary |-> SlackSummary(text),
      url |-> createSlackLink(body.team_id, event.channel, event.ts),
      platform |-> "slack",
      messageId |-> SlackMessageId(body.team_id, event.channel, event.ts),
      user_id |-> IF srv = "multi" THEN user_id ELSE Null]

\* The handler up to its first await: the url_verification echo, the signature
\* check and the event filter.
\* Mutant of SignatureRejected: no answer of the verification rejects.
SignatureRejected_Never(v) == FALSE

\* if (!verifySlackSignature(req)): the handler rejects when it returned false.
SignatureRejected(v) == v = "false"

SlackWebhookStart(t) ==
  /\ tasks[t].pc = "slack_webhook_start"
  /\ LET tk0 == [tasks[t] EXCEPT !.at = now]
         body == JSONparse(tk0.req.raw)
         event == body.event
         v == verifySlackSignature(tk0.req, env.SLACK_SIGNING_SECRET, now)
         tk == [tk0 EXCEPT !.verified = v]
     IN IF body.type = "url_verification"
          THEN tasks' = [tasks EXCEPT ![t] = Respond(tk0, 200, body.challenge)]
        ELSE IF v = "throw"
          THEN \E st \in UnhandledOutcomes :
                 tasks' = [tasks EXCEPT ![t] = Respond(tk, st, Null)]
        ELSE IF SignatureRejected(v)
          THEN tasks' = [tasks EXCEPT ![t] =
                           Respond(Logged(tk, "warn:invalid_signature"), 401,
                                   "Invalid signature")]
        ELSE IF ~IsDirectMessage(event)
          THEN tasks' = [tasks EXCEPT ![t] = Respond(tk, 200, "OK")]
        ELSE IF IsBotOrSubtype(event)
          THEN tasks' = [tasks EXCEPT ![t] = Respond(tk, 200, "OK")]
        ELSE IF server = "multi"
          THEN tasks' = [tasks EXCEPT ![t] = [tk EXCEPT !.pc = "slack_lookup"]]
        ELSE IF env.SLACK_BOT_TOKEN # Null
          THEN tasks' = [tasks EXCEPT ![t] =
                           [tk EXCEPT !.pc = "slack_profile",
                                      !.token = env.SLACK_BOT_TOKEN]]
        ELSE tasks' = [tasks EXCEPT ![t] =
                         CallSave(tk, SlackSaveArgs(server, body, event.user, Null),
                                  inserted)]
  /\ UNCHANGED <<server, env, now, pending_actions, inserted, user_slack_tokens,
                 user_gmail_tokens, mailbox, oauth2Client, faultsLeft>>

\* .single(): the row when the query matches exactly one, else no data.
Single(rows) ==
  IF Cardinality(rows) = 1 THEN [found |-> TRUE, row |-> CHOOSE r \in rows : TRUE]
  ELSE [found |-> FALSE]

\* part_001: look up which user owns this workspace.
SlackLookupTenant(t) ==
  /\ tasks[t].pc = "slack_lookup"
  /\ LET body == JSONparse(tasks[t].req.raw)
         rows == {r \in user_slack_tokens : r.team_id = body.team_id}
         tk == [tasks[t] EXCEPT !.lookups = @ + 1, !.credRows = Cardinality(rows)]
         found == Single(rows)
         unknown == Respond(Logged(tk, "log:no_user"), 200, "OK")
     IN \/ /\ found.found
           /\ tasks' = [tasks EXCEPT ![t] =
                          [tk EXCEPT !.pc = "slack_profile",
                                     !.user_id = found.row.user_id,
                                     !.token = found.row.bot_token]]
           /\ UNCHANGED faultsLeft
        \/ /\ ~found.found
           /\ tasks' = [tasks EXCEPT ![t] = unknown]
           /\ UNCHANGED faultsLeft
        \/ /\ faultsLeft > 0
           /\ faultsLeft' = faultsLeft - 1
           /\ tasks' = [tasks EXCEPT ![t] = unknown]
  /\ UNCHANGED <<server, env, now, pending_actions, inserted, user_slack_tokens,
                 user_gmail_tokens, mailbox, oauth2Client>>

\* The answers of users.info: the fetch throws, the answer is not ok, or it is ok
\* with a real_name, with only a name, or with neither.
UsersInfoReplies ==
  { [threw |-> TRUE,  ok |-> FALSE, real_name |-> Null,  name |-> Null],
    [threw |-> FALSE, ok |-> FALSE, real_name |-> Null,  name |-> Null],
    [threw |-> FALSE, ok |-> TRUE,  real_name |-> "Ada Lovelace", name |-> "ada"],
    [threw |-> FALSE, ok |-> TRUE,  real_name |-> Null,  name |-> "ada"] }

\* Mutant of SlackSenderName: no sender name when the lookup has failed.
SlackSenderName_NoFallback(reply, slackUserId) ==
  IF reply.threw \/ ~reply.ok THEN Null
  ELSE IF reply.real_name # Null THEN reply.real_name
  ELSE IF reply.name # Null THEN reply.name
  ELSE slackUserId

\* userData.user?.real_name || userData.user?.name || slackUserId, when userData.ok
SlackSenderName(reply, slackUserId) ==
  IF reply.threw \/ ~reply.ok THEN slackUserId
  ELSE IF reply.real_name # Null THEN reply.real_name
  ELSE IF reply.name # Null THEN reply.name
  ELSE slackUserId

\* Get the sender name with the bot token, then build the saveToSupabase arguments.
SlackFetchProfile(t) ==
  /\ tasks[t].pc = "slack_profile"
  /\ \E reply \in UsersInfoReplies :
       LET tk == [tasks[t] EXCEPT !.apiCalls = @ + 1,
                                  !.used = @ \cup {tasks[t].token},
                                  !.profile = IF reply.threw THEN "threw"
                                              ELSE IF reply.ok THEN "ok" ELSE "not_ok"]
           body == JSONparse(tk.req.raw)
           senderName == SlackSenderName(reply, body.event.user)
           tk2 == IF reply.threw THEN Logged(tk, "warn:user_info") ELSE tk
       IN tasks' = [tasks EXCEPT ![t] =
                      CallSave(tk2, SlackSaveArgs(server, body, senderName, tk.user_id),
                               inserted)]
  /\ UNCHANGED <<server, env, now, pending_actions, inserted, user_slack_tokens,
                 user_gmail_tokens, mailbox, oauth2Client, faultsLeft>>

----------------------------------------------------------------------------
(* saveToSupabase: the duplicate check, then the insert.                    *)
(* Task fields that only record what happened (read by no action):          *)
(*   saveResult  what the last saveToSupabase call returned or that it threw *)
(*   rejected    the last insert was refused by the unique index             *)
(*   threw       a saveToSupabase call of this request threw                 *)
(*   nsaved      rows this request has inserted                              *)
(*   again       when the last call began, a row inserted for the same       *)
(*               message (url, messageId, platform) was already stored       *)
(*   dupErr      the duplicate query of the last call failed                 *)
(*   verified    what verifySlackSignature gave for this request, "none"     *)
(*               while it has not been called                                *)
(*   at          the clock when the request's handler ran its first part     *)
(*   lookups     queries this request has sent to a credential table          *)
(*   apiCalls    calls this request has sent to a provider API                *)
(*   credRows    rows of the credential table that matched the request's      *)
(*               lookup                                                       *)
(*   dupAnswer   what isDuplicate returned to the request's last call of      *)
(*               saveToSupabase: "yes", "no", or "none" before it returned     *)
(*   profile     how the request's users.info call ended: "threw", "not_ok",  *)
(*               "ok", or "none" when it was not made                          *)
(*   used        the secrets the request's provider API calls were made with  *)

\* await isDuplicate(...): a failed query is logged and counts as "no duplicate".
\* Mutant of DupCheckFailed: a failed query counts as a duplicate found.
DupCheckFailed_Skips(tk) ==
  AfterSave([Logged(tk, "error:dupcheck") EXCEPT !.saveResult = "skipped_duplicate",
                                                 !.dupErr = TRUE,
                                                 !.dupAnswer = "yes"])

\* The query of isDuplicate has failed: the error is logged, isDuplicate returns
\* false and saveToSupabase goes on to the insert.
DupCheckFailed(tk) ==
  [Logged(tk, "error:dupcheck") EXCEPT !.pc = "insert",
                                       !.dupErr = TRUE,
                                       !.dupAnswer = "no"]

DuplicateCheck(t) ==
  /\ tasks[t].pc = "dedup"
  /\ LET tk == tasks[t] IN
       \/ /\ isDuplicate(server, pending_actions, tk.args)
          /\ tasks' = [tasks EXCEPT ![t] =
                         AfterSave([tk EXCEPT !.saveResult = "skipped_duplicate",
                                              !.dupAnswer = "yes"])]
          /\ UNCHANGED faultsLeft
       \/ /\ ~isDuplicate(server, pending_actions, tk.args)
          /\ tasks' = [tasks EXCEPT ![t] = [tk EXCEPT !.pc = "insert",
                                                      !.dupAnswer = "no"]]
          /\ UNCHANGED faultsLeft
       \/ /\ faultsLeft > 0
          /\ faultsLeft' = faultsLeft - 1
          /\ tasks' = [tasks EXCEPT ![t] = DupCheckFailed(tk)]
  /\ UNCHANGED <<server, env, now, pending_actions, inserted, user_slack_tokens,
                 user_gmail_tokens, mailbox, oauth2Client>>

\* await supabase.from('pending_actions').insert([...]).select(): an error of the
\* storage layer (unavailable, or the unique index refusing the row) is thrown.
InsertPending(t) ==
  /\ tasks[t].pc = "insert"
  /\ LET tk == tasks[t]
         row == NewRow(server, Len(inserted) + 1, tk.args, now)
         failed == [Logged(tk, "error:insert") EXCEPT !.saveResult = "threw",
                                                       !.threw = TRUE]
     IN \/ /\ ~UniqueViolation(pending_actions, row)
           /\ pending_actions' = Append(pending_actions, row)
           /\ inserted' = Append(inserted, tk.args)
           /\ tasks' = [tasks EXCEPT ![t] =
                          AfterSave([tk EXCEPT !.saveResult = "saved",
                                               !.nsaved = @ + 1])]
           /\ UNCHANGED faultsLeft
        \/ /\ UniqueViolation(pending_actions, row)
           /\ tasks' = [tasks EXCEPT ![t] =
                          AfterThrow([failed EXCEPT !.rejected = TRUE])]
           /\ UNCHANGED <<pending_actions, inserted, faultsLeft>>
        \/ /\ faultsLeft > 0
           /\ faultsLeft' = faultsLeft - 1
           /\ tasks' = [tasks EXCEPT ![t] = AfterThrow(failed)]
           /\ UNCHANGED <<pending_actions, inserted>>
  /\ UNCHANGED <<server, env, now, user_slack_tokens, user_gmail_tokens, mailbox, oauth2Client>>

----------------------------------------------------------------------------
(* Email helpers. *)

EXCLUDED_LABELS ==
  {"CATEGORY_PROMOTIONS", "CATEGORY_SOCIAL", "CATEGORY_UPDATES", "CATEGORY_FORUMS",
   "SPAM", "TRASH"}

\* Mutant of shouldIncludeEmail: CATEGORY_UPDATES is not among the excluded labels.
shouldIncludeEmail_UpdatesPass(labelIds) ==
  IF \E excludedLabel \in EXCLUDED_LABELS \ {"CATEGORY_UPDATES"} :
        excludedLabel \in labelIds
    THEN FALSE
  ELSE "INBOX" \in labelIds

\* Mutant of shouldIncludeEmail: only the INBOX label is looked at.
shouldIncludeEmail_InboxOnly(labelIds) == "INBOX" \in labelIds

shouldIncludeEmail(labelIds) ==
  IF \E excludedLabel \in EXCLUDED_LABELS : excludedLabel \in labelIds THEN FALSE
  ELSE "INBOX" \in labelIds

Ch(str, i) == SubSeq(str, i, i)

IsSpace(c) == c = " "

RECURSIVE StripQuotes(_)
\* .replace(/"/g, '')
StripQuotes(str) ==
  IF Len(str) = 0 THEN ""
  ELSE (IF Ch(str, 1) = "\"" THEN "" ELSE Ch(str, 1))
         \o StripQuotes(SubSeq(str, 2, Len(str)))

RECURSIVE Trim(_)
\* .trim()
Trim(str) ==
  IF Len(str) = 0 THEN ""
  ELSE IF IsSpace(Ch(str, 1)) THEN Trim(SubSeq(str, 2, Len(str)))
  ELSE IF IsSpace(Ch(str, Len(str))) THEN Trim(SubSeq(str, 1, Len(str) - 1))
  ELSE str

\* Whether str from position p on matches \s*<.+>$ .
MatchesAddressTail(str, p) ==
  \E q \in p..Len(str) :
     /\ \A j \in p..(q - 1) : IsSpace(Ch(str, j))
     /\ Ch(str, q) = "<"
     /\ q + 2 <= Len(str)
     /\ Ch(str, Len(str)) = ">"

\* The lengths k of a first group for which /^(.+?)\s*<.+>$/ matches.
NameLengths(str) == {k \in 1..Len(str) : MatchesAddressTail(str, k + 1)}

\* The pairs (a, b) of a '<' and a later '>' with at least one character between.
Brackets(str) ==
  {ab \in (1..Len(str)) \X (1..Len(str)) :
     /\ Ch(str, ab[1]) = "<"
     /\ Ch(str, ab[2]) = ">"
     /\ ab[2] >= ab[1] + 2}

Min(S) == CHOOSE x \in S : \A y \in S : x <= y
Max(S) == CHOOSE x \in S : \A y \in S : x >= y

\* Mutant of parseSenderName: the quote characters are left in the name.
parseSenderName_KeepQuotes(fromHeader) ==
  IF fromHeader = Null \/ fromHeader = "" THEN "Unknown Sender"
  ELSE IF NameLengths(fromHeader) # {}
    THEN Trim(SubSeq(fromHeader, 1, Min(NameLengths(fromHeader))))
  ELSE IF Brackets(fromHeader) # {}
    THEN LET a == Min({ab[1] : ab \in Brackets(fromHeader)})
             b == Max({ab[2] : ab \in Brackets(fromHeader)})
         IN SubSeq(fromHeader, a + 1, b - 1)
  ELSE fromHeader

parseSenderName(fromHeader) ==
  IF fromHeader = Null \/ fromHeader = "" THEN "Unknown Sender"
  ELSE IF NameLengths(fromHeader) # {}
    THEN Trim(StripQuotes(SubSeq(fromHeader, 1, Min(NameLengths(fromHeader)))))
  ELSE IF Brackets(fromHeader) # {}
    THEN LET a == Min({ab[1] : ab \in Brackets(fromHeader)})
             b == Max({ab[2] : ab \in Brackets(fromHeader)})
         IN SubSeq(fromHeader, a + 1, b - 1)
  ELSE fromHeader

\* The arguments of the email handlers' saveToSupabase call for a fetched message.
GmailSaveArgs(msg, user_id) ==
  [sender |-> parseSenderName(msg.from),
   summary |-> IF msg.subject = "" THEN "(No Subject)" ELSE msg.subject,
   url |-> createGmailLink(msg.id),
   platform |-> "gmail",
   messageId |-> IF msg.messageId = "" THEN msg.id ELSE msg.messageId,
   user_id |-> user_id]

\* messages.list({ labelIds: ['INBOX'], maxResults }): the newest maxResults
\* messages that carry the INBOX label.
RECURSIVE InboxOf(_)
InboxOf(msgs) ==
  IF msgs = <<>> THEN <<>>
  ELSE (IF "INBOX" \in Head(msgs).labelIds THEN <<Head(msgs)>> ELSE <<>>)
         \o InboxOf(Tail(msgs))

ListMessages(msgs, maxResults) ==
  LET inbox == InboxOf(msgs)
  IN SubSeq(inbox, 1, IF Len(inbox) < maxResults THEN Len(inbox) ELSE maxResults)

\* maxResults of the push handler, and the default of the sync handler.
WebhookMaxResults == 5
SyncDefaultMaxResults == 10

MaxResultsOf(tk) ==
  IF tk.route = "gmail_webhook" THEN WebhookMaxResults
  ELSE IF ~tk.req.maxResults.set THEN SyncDefaultMaxResults
  ELSE tk.req.maxResults.val

----------------------------------------------------------------------------
(* POST /gmail/webhook and POST /gmail/sync (part_001) *)

\* /gmail/webhook up to its first await.
GmailWebhookStart(t) ==
  /\ tasks[t].pc = "gmail_webhook_start"
  /\ LET tk == tasks[t] IN
       IF tk.req.data.form = "absent"
         THEN tasks' = [tasks EXCEPT ![t] = Respond(tk, 200, "No data")]
       ELSE IF tk.req.data.form = "malformed"
         THEN tasks' = [tasks EXCEPT ![t] = AfterThrow(tk)]
       ELSE tasks' = [tasks EXCEPT ![t].pc = "gmail_lookup"]
  /\ UNCHANGED <<server, env, now, pending_actions, inserted, user_slack_tokens,
                 user_gmail_tokens, mailbox, oauth2Client, faultsLeft>>

\* Mutant of Missing: no value counts as missing.
Missing_Never(v) == FALSE

\* !user_id: undefined, null and the empty string are falsy.
Missing(v) == v = Null \/ v = ""

\* /gmail/sync up to its first await.
GmailSyncStart(t) ==
  /\ tasks[t].pc = "gmail_sync_start"
  /\ LET tk == tasks[t] IN
       IF Missing(tk.req.user_id)
         THEN tasks' = [tasks EXCEPT ![t] = Respond(tk, 400, "Missing user_id")]
       ELSE tasks' = [tasks EXCEPT ![t].pc = "gmail_lookup"]
  /\ UNCHANGED <<server, env, now, pending_actions, inserted, user_slack_tokens,
                 user_gmail_tokens, mailbox, oauth2Client, faultsLeft>>

\* The credential rows the handler's query selects: by email_address in the
\* webhook, by user_id in the sync.
GmailCredentialRows(tk, table) ==
  IF tk.route = "gmail_webhook"
    THEN {r \in table : r.email_address = tk.req.data.emailAddress}
  ELSE {r \in table : r.user_id = tk.req.user_id}

\* Mutant of NoCredential: every handler reports the missing credential as 404.
NoCredential_NotFound(tk) ==
  Respond(tk, 404, "Gmail not connected for this user")

\* The answer to a request for which the query gave no credential.
NoCredential(tk) ==
  IF tk.route = "gmail_webhook" THEN Respond(Logged(tk, "log:no_user"), 200, "OK")
  ELSE Respond(tk, 404, "Gmail not connected for this user")

\* await supabase.from('user_gmail_tokens').select(...).single()
GmailLookup(t) ==
  /\ tasks[t].pc = "gmail_lookup"
  /\ LET tk == [tasks[t] EXCEPT
                  !.lookups = @ + 1,
                  !.credRows = Cardinality(GmailCredentialRows(tasks[t], user_gmail_tokens))]
         found == Single(GmailCredentialRows(tk, user_gmail_tokens))
     IN \/ /\ found.found
           /\ tasks' = [tasks EXCEPT ![t] =
                          [tk EXCEPT !.pc = "gmail_list",
                                     !.user_id = found.row.user_id,
                                     !.token = found.row.refresh_token]]
           /\ UNCHANGED faultsLeft
        \/ /\ ~found.found
           /\ tasks' = [tasks EXCEPT ![t] = NoCredential(tk)]
           /\ UNCHANGED faultsLeft
        \/ /\ faultsLeft > 0
           /\ faultsLeft' = faultsLeft - 1
           /\ tasks' = [tasks EXCEPT ![t] = NoCredential(tk)]
  /\ UNCHANGED <<server, env, now, pending_actions, inserted, user_slack_tokens,
                 user_gmail_tokens, mailbox, oauth2Client>>

\* await userGmail.users.messages.list(...): the provider answers or throws.
GmailList(t) ==
  /\ tasks[t].pc = "gmail_list"
  /\ LET tk == [tasks[t] EXCEPT !.apiCalls = @ + 1, !.used = @ \cup {tasks[t].token}]
         listed == ListMessages(mailbox[tk.token], MaxResultsOf(tk))
     IN \/ tasks' = [tasks EXCEPT ![t] = GmailNext([tk EXCEPT !.msgs = listed])]
        \/ tasks' = [tasks EXCEPT ![t] = AfterThrow(tk)]
  /\ UNCHANGED <<server, env, now, pending_actions, inserted, user_slack_tokens,
                 user_gmail_tokens, mailbox, oauth2Client, faultsLeft>>

\* await userGmail.users.messages.get(...) for message i, then the filter and
\* the saveToSupabase call.
GmailGet(t) ==
  /\ tasks[t].pc = "gmail_get"
  /\ LET tk == [tasks[t] EXCEPT !.apiCalls = @ + 1, !.used = @ \cup {tasks[t].token}]
         msg == tk.msgs[tk.i]
     IN \/ /\ shouldIncludeEmail(msg.labelIds)
           /\ tasks' = [tasks EXCEPT ![t] =
                          CallSave(tk, GmailSaveArgs(msg, tk.user_id), inserted)]
        \/ /\ ~shouldIncludeEmail(msg.labelIds)
           /\ tasks' = [tasks EXCEPT ![t] = GmailNext([tk EXCEPT !.nfiltered = @ + 1])]
        \/ tasks' = [tasks EXCEPT ![t] = AfterThrow(tk)]
  /\ UNCHANGED <<server, env, now, pending_actions, inserted, user_slack_tokens,
                 user_gmail_tokens, mailbox, oauth2Client, faultsLeft>>

----------------------------------------------------------------------------
(* GET /auth/google, GET /auth/slack, GET /auth/google/callback and           *)
(* POST /gmail/watch (part_001)                                              *)

\* JSON.stringify of a string, without the enclosing quotes: the quote and the
\* backslash are escaped with a backslash.
RECURSIVE EscapeJson(_)
EscapeJson(str) ==
  IF str = "" THEN ""
  ELSE LET c == Ch(str, 1) IN
         (IF c = "\"" \/ c = "\\" THEN "\\" \o c ELSE c)
           \o EscapeJson(SubSeq(str, 2, Len(str)))

\* Whether str is the inside of a JSON string literal: no bare quote, and every
\* backslash escapes a character.
RECURSIVE IsJsonStringBody(_)
IsJsonStringBody(str) ==
  IF str = "" THEN TRUE
  ELSE IF Ch(str, 1) = "\"" THEN FALSE
  ELSE IF Ch(str, 1) = "\\"
    THEN Len(str) >= 2 /\ IsJsonStringBody(SubSeq(str, 3, Len(str)))
  ELSE IsJsonStringBody(SubSeq(str, 2, Len(str)))

\* The string a JSON string literal with this inside stands for.
RECURSIVE UnescapeJson(_)
UnescapeJson(str) ==
  IF str = "" THEN ""
  ELSE IF Ch(str, 1) = "\\"
    THEN Ch(str, 2) \o UnescapeJson(SubSeq(str, 3, Len(str)))
  ELSE Ch(str, 1) \o UnescapeJson(SubSeq(str, 2, Len(str)))

\* Buffer.from(text).toString('base64') and Buffer.from(b64, 'base64').toString():
\* the coding loses nothing, and what is not base64 text decodes to no text.
Base64Mark == "b64:"
ToBase64(text) == Base64Mark \o text
FromBase64(b64) ==
  IF Len(b64) >= Len(Base64Mark) /\ SubSeq(b64, 1, Len(Base64Mark)) = Base64Mark
    THEN SubSeq(b64, Len(Base64Mark) + 1, Len(b64))
  ELSE ""

\* const state = Buffer.from(JSON.stringify({ user_id })).toString('base64')
StateOpen == "{\"user_id\":\""
StateClose == "\"}"

\* Mutant of EncodeState: the user_id is put between the quotes as it is.
EncodeState_Unescaped(user_id) == ToBase64(StateOpen \o user_id \o StateClose)

EncodeState(user_id) == ToBase64(StateOpen \o EscapeJson(user_id) \o StateClose)

\* const { user_id } = JSON.parse(Buffer.from(state, 'base64').toString()): the
\* user_id of the object, undefined (Null) for an object without one; JSON.parse
\* throws (ok is FALSE) on what is not JSON.
DecodeState(state) ==
  LET text == FromBase64(state)
      body == SubSeq(text, Len(StateOpen) + 1, Len(text) - Len(StateClose))
  IN IF text = "{}" THEN [ok |-> TRUE, user_id |-> Null]
     ELSE IF /\ Len(text) >= Len(StateOpen) + Len(StateClose)
             /\ SubSeq(text, 1, Len(StateOpen)) = StateOpen
             /\ SubSeq(text, Len(text) - Len(StateClose) + 1, Len(text)) = StateClose
             /\ IsJsonStringBody(body)
       THEN [ok |-> TRUE, user_id |-> UnescapeJson(body)]
     ELSE [ok |-> FALSE, user_id |-> Null]

\* GET /auth/google?user_id=...: 400 without user_id, else the redirect to the
\* provider's consent page (res.redirect answers 302).
AuthGoogle(t) ==
  /\ tasks[t].pc = "auth_google_start"
  /\ LET tk == tasks[t] IN
       IF Missing(tk.req.user_id)
         THEN tasks' = [tasks EXCEPT ![t] = Respond(tk, 400, "Missing user_id parameter")]
       ELSE tasks' = [tasks EXCEPT ![t] = Respond(tk, 302, "redirect:google?state=" \o EncodeState(tk.req.user_id))]
  /\ UNCHANGED <<server, env, now, pending_actions, inserted, user_slack_tokens,
                 user_gmail_tokens, mailbox, oauth2Client, faultsLeft>>

\* GET /auth/slack?user_id=...
AuthSlack(t) ==
  /\ tasks[t].pc = "auth_slack_start"
  /\ LET tk == tasks[t] IN
       IF Missing(tk.req.user_id)
         THEN tasks' = [tasks EXCEPT ![t] = Respond(tk, 400, "Missing user_id parameter")]
       ELSE tasks' = [tasks EXCEPT ![t] = Respond(tk, 302, "redirect:slack?state=" \o EncodeState(tk.req.user_id))]
  /\ UNCHANGED <<server, env, now, pending_actions, inserted, user_slack_tokens,
                 user_gmail_tokens, mailbox, oauth2Client, faultsLeft>>

\* What the provider grants for an authorization code: the account's address and
\* a refresh token; for any other code getToken throws.
Grants ==
  [code \in {"code-a", "code-b", "code-c"} |->
     IF code = "code-a" THEN [email_address |-> "ada@x.com", refresh_token |-> "rt-1"]
     ELSE IF code = "code-b"
       THEN [email_address |-> "ada@work.com", refresh_token |-> "rt-2"]
     ELSE [email_address |-> "ada@x.com", refresh_token |-> "rt-3"]]

\* Mutant of OAuthFailed: the catch block answers with the success page's status.
OAuthFailed_Acknowledges(tk) == Respond(Logged(tk, "error:" \o tk.route), 200, "error")

\* The catch block of the callback and of the watch: 500.
OAuthFailed(tk) == Respond(Logged(tk, "error:" \o tk.route), 500, "error")

\* Whether decoding the request's state throws: Buffer.from throws without a
\* state, JSON.parse on a state that is not the coding of an object.
StateThrows(req) == ~req.state.set \/ ~DecodeState(req.state.val).ok

\* The callback up to its first await: the user_id is decoded from state, then
\* getToken is called.
GoogleCallbackStart(t) ==
  /\ tasks[t].pc = "google_callback_start"
  /\ LET tk == tasks[t] IN
       IF StateThrows(tk.req)
         THEN tasks' = [tasks EXCEPT ![t] = OAuthFailed(tk)]
       ELSE tasks' = [tasks EXCEPT ![t] =
                        [tk EXCEPT !.pc = "callback_token",
                                   !.user_id = DecodeState(tk.req.state.val).user_id]]
  /\ UNCHANGED <<server, env, now, pending_actions, inserted, user_slack_tokens,
                 user_gmail_tokens, mailbox, oauth2Client, faultsLeft>>

\* await oauth2Client.getToken(code)
GoogleGetToken(t) ==
  /\ tasks[t].pc = "callback_token"
  /\ LET tk == [tasks[t] EXCEPT !.apiCalls = @ + 1] IN
       \/ /\ tk.req.code \in DOMAIN Grants
          /\ tasks' = [tasks EXCEPT ![t] =
                         [tk EXCEPT !.pc = "callback_profile",
                                    !.token = Grants[tk.req.code].refresh_token]]
       \/ tasks' = [tasks EXCEPT ![t] = OAuthFailed(tk)]
  /\ UNCHANGED <<server, env, now, pending_actions, inserted, user_slack_tokens,
                 user_gmail_tokens, mailbox, oauth2Client, faultsLeft>>

\* await tempGmail.users.getProfile({ userId: 'me' })
GoogleGetProfile(t) ==
  /\ tasks[t].pc = "callback_profile"
  /\ LET tk == [tasks[t] EXCEPT !.apiCalls = @ + 1, !.used = @ \cup {tasks[t].token}] IN
       \/ tasks' = [tasks EXCEPT ![t] = [tk EXCEPT !.pc = "callback_upsert"]]
       \/ tasks' = [tasks EXCEPT ![t] = OAuthFailed(tk)]
  /\ UNCHANGED <<server, env, now, pending_actions, inserted, user_slack_tokens,
                 user_gmail_tokens, mailbox, oauth2Client, faultsLeft>>

\* Mutant of Upsert: the conflict is on user_id and email_address together.
Upsert_OnUserAndEmail(table, row) ==
  {r \in table : ~(r.user_id = row.user_id /\ r.email_address = row.email_address)}
    \cup {row}

\* Mutant of Upsert: the row is added and the row it conflicts with stays.
Upsert_KeepsPrior(table, row) == table \cup {row}

\* .upsert(row, { onConflict: 'email_address' }): the row replaces the row of the
\* same email_address, if there is one.
Upsert(table, row) ==
  {r \in table : r.email_address # row.email_address} \cup {row}

\* await supabase.from('user_gmail_tokens').upsert(...), then the answer.
GoogleUpsert(t) ==
  /\ tasks[t].pc = "callback_upsert"
  /\ LET tk == tasks[t]
         row == [user_id |-> tk.user_id,
                 email_address |-> Grants[tk.req.code].email_address,
                 refresh_token |-> tk.token]
     IN \/ /\ user_gmail_tokens' = Upsert(user_gmail_tokens, row)
           /\ tasks' = [tasks EXCEPT ![t] = Respond(tk, 200, "Gmail Connected!")]
           /\ UNCHANGED faultsLeft
        \/ /\ faultsLeft > 0
           /\ faultsLeft' = faultsLeft - 1
           /\ tasks' = [tasks EXCEPT ![t] = OAuthFailed(tk)]
           /\ UNCHANGED user_gmail_tokens
  /\ UNCHANGED <<server, env, now, pending_actions, inserted, user_slack_tokens, mailbox, oauth2Client>>

\* What oauth.v2.access answers for an authorization code: the workspace and a
\* bot token; for any other code the answer is not ok.
SlackGrants ==
  [code \in {"scode-1", "scode-2"} |->
     IF code = "scode-1"
       THEN [team_id |-> "T1", team_name |-> "Acme", access_token |-> "xoxb-2"]
     ELSE [team_id |-> "T2", team_name |-> "Beta", access_token |-> "xoxb-3"]]

\* GET /auth/slack/callback up to its first await: the user_id is decoded from
\* state, then the code is sent to oauth.v2.access.
SlackCallbackStart(t) ==
  /\ tasks[t].pc = "slack_callback_start"
  /\ LET tk == tasks[t] IN
       IF StateThrows(tk.req)
         THEN tasks' = [tasks EXCEPT ![t] = OAuthFailed(tk)]
       ELSE tasks' = [tasks EXCEPT ![t] =
                        [tk EXCEPT !.pc = "slack_access",
                                   !.user_id = DecodeState(tk.req.state.val).user_id]]
  /\ UNCHANGED <<server, env, now, pending_actions, inserted, user_slack_tokens,
                 user_gmail_tokens, mailbox, oauth2Client, faultsLeft>>

\* await fetch('https://slack.com/api/oauth.v2.access', ...) and its answer:
\* fetch may throw, and an answer that is not ok is thrown.
SlackOAuthAccess(t) ==
  /\ tasks[t].pc = "slack_access"
  /\ LET tk == [tasks[t] EXCEPT !.apiCalls = @ + 1] IN
       \/ /\ tk.req.code \in DOMAIN SlackGrants
          /\ tasks' = [tasks EXCEPT ![t] =
                         [tk EXCEPT !.pc = "slack_upsert",
                                    !.token = SlackGrants[tk.req.code].access_token]]
       \/ tasks' = [tasks EXCEPT ![t] = OAuthFailed(tk)]
  /\ UNCHANGED <<server, env, now, pending_actions, inserted, user_slack_tokens,
                 user_gmail_tokens, mailbox, oauth2Client, faultsLeft>>

\* .upsert(row, { onConflict: 'user_id,team_id' }): the row replaces the row of
\* the same user_id and team_id, if there is one.
UpsertSlack(table, row) ==
  {r \in table : ~(r.user_id = row.user_id /\ r.team_id = row.team_id)} \cup {row}

\* await supabase.from('user_slack_tokens').upsert(...), then the answer.
SlackUpsert(t) ==
  /\ tasks[t].pc = "slack_upsert"
  /\ LET tk == tasks[t]
         row == [user_id |-> tk.user_id,
                 team_id |-> SlackGrants[tk.req.code].team_id,
                 team_name |-> SlackGrants[tk.req.code].team_name,
                 bot_token |-> tk.token]
     IN \/ /\ user_slack_tokens' = UpsertSlack(user_slack_tokens, row)
           /\ tasks' = [tasks EXCEPT ![t] = Respond(tk, 200, "Slack Connected!")]
           /\ UNCHANGED faultsLeft
        \/ /\ faultsLeft > 0
           /\ faultsLeft' = faultsLeft - 1
           /\ tasks' = [tasks EXCEPT ![t] = OAuthFailed(tk)]
           /\ UNCHANGED user_slack_tokens
  /\ UNCHANGED <<server, env, now, pending_actions, inserted, user_gmail_tokens, mailbox, oauth2Client>>

\* /gmail/watch up to its first await.
GmailWatchStart(t) ==
  /\ tasks[t].pc = "gmail_watch_start"
  /\ LET tk == tasks[t] IN
       IF Missing(tk.req.user_id)
         THEN tasks' = [tasks EXCEPT ![t] = Respond(tk, 400, "Missing user_id")]
       ELSE tasks' = [tasks EXCEPT ![t].pc = "gmail_watch_lookup"]
  /\ UNCHANGED <<server, env, now, pending_actions, inserted, user_slack_tokens,
                 user_gmail_tokens, mailbox, oauth2Client, faultsLeft>>

\* await supabase.from('user_gmail_tokens').select('refresh_token')
\*   .eq('user_id', user_id).single()
GmailWatchLookup(t) ==
  /\ tasks[t].pc = "gmail_watch_lookup"
  /\ LET tk == [tasks[t] EXCEPT
                  !.lookups = @ + 1,
                  !.credRows = Cardinality(GmailCredentialRows(tasks[t], user_gmail_tokens))]
         found == Single(GmailCredentialRows(tk, user_gmail_tokens))
     IN \/ /\ found.found
           /\ tasks' = [tasks EXCEPT ![t] =
                          [tk EXCEPT !.pc = "gmail_watch_call",
                                     !.token = found.row.refresh_token]]
           /\ UNCHANGED faultsLeft
        \/ /\ ~found.found
           /\ tasks' = [tasks EXCEPT ![t] = NoCredential(tk)]
           /\ UNCHANGED faultsLeft
        \/ /\ faultsLeft > 0
           /\ faultsLeft' = faultsLeft - 1
           /\ tasks' = [tasks EXCEPT ![t] = NoCredential(tk)]
  /\ UNCHANGED <<server, env, now, pending_actions, inserted, user_slack_tokens,
                 user_gmail_tokens, mailbox, oauth2Client>>

\* await userGmail.users.watch(...): the provider answers or throws.
GmailWatchCall(t) ==
  /\ tasks[t].pc = "gmail_watch_call"
  /\ LET tk == [tasks[t] EXCEPT !.apiCalls = @ + 1, !.used = @ \cup {tasks[t].token}] IN
       \/ tasks' = [tasks EXCEPT ![t] = Respond(tk, 200, "Gmail watch activated")]
       \/ tasks' = [tasks EXCEPT ![t] = OAuthFailed(tk)]
  /\ UNCHANGED <<server, env, now, pending_actions, inserted, user_slack_tokens,
                 user_gmail_tokens, mailbox, oauth2Client, faultsLeft>>

----------------------------------------------------------------------------
(* DELETE /pending/:id (server.js) and the script src/index.js *)

\* await supabase.from('pending_actions').delete().eq('id', req.params.id): the
\* rows with that id are removed; an error of the storage layer is answered 500.
PendingDelete(t) ==
  /\ tasks[t].pc = "pending_delete_start"
  /\ LET tk == tasks[t] IN
       \/ /\ pending_actions' = SelectSeq(pending_actions, LAMBDA r : r.id # tk.req.id)
          /\ tasks' = [tasks EXCEPT ![t] = Respond(tk, 200, "success")]
          /\ UNCHANGED faultsLeft
       \/ /\ faultsLeft > 0
          /\ faultsLeft' = faultsLeft - 1
          /\ tasks' = [tasks EXCEPT ![t] = Respond(tk, 500, "error")]
          /\ UNCHANGED pending_actions
  /\ UNCHANGED <<server, env, now, inserted, user_slack_tokens, user_gmail_tokens,
                 mailbox, oauth2Client>>

\* The record simpleTest() builds: a sender, a summary and a url that ends in a
\* random number; no platform and no message_id.
SimpleTestArgs(random) ==
  [sender |-> "Test Pilot", summary |-> "The engine is officially working!",
   url |-> "https://apple.com/" \o random, platform |-> Null, messageId |-> Null,
   user_id |-> Null]

SimpleTestRow(id, args) ==
  [id |-> id, sender |-> args.sender, summary |-> args.summary, url |-> args.url]

\* simpleTest() of src/index.js: await supabase.from('pending_actions')
\* .insert([testData]), then the result is logged.
SimpleTest(t) ==
  /\ tasks[t].pc = "simple_test_start"
  /\ LET args == SimpleTestArgs(tasks[t].req.random)
         tk == [tasks[t] EXCEPT !.args = args, !.pc = "done"]
     IN \/ /\ pending_actions' =
                Append(pending_actions, SimpleTestRow(Len(inserted) + 1, args))
           /\ inserted' = Append(inserted, args)
           /\ tasks' = [tasks EXCEPT ![t] =
                          [Logged(tk, "log:success") EXCEPT !.nsaved = @ + 1]]
           /\ UNCHANGED faultsLeft
        \/ /\ faultsLeft > 0
           /\ faultsLeft' = faultsLeft - 1
           /\ tasks' = [tasks EXCEPT ![t] = Logged(tk, "log:db_error")]
           /\ UNCHANGED <<pending_actions, inserted>>
  /\ UNCHANGED <<server, env, now, user_slack_tokens, user_gmail_tokens, mailbox, oauth2Client>>

----------------------------------------------------------------------------
(* GET /auth/google/callback and POST /gmail/webhook (server.js): both use    *)
(* the module-level oauth2Client, through which the gmail client sends every  *)
(* call.                                                                      *)

\* The callback up to its await: oauth2Client.getToken(code) is called.
LegacyCallbackStart(t) ==
  /\ tasks[t].pc = "legacy_google_callback_start"
  /\ tasks' = [tasks EXCEPT ![t].pc = "legacy_token"]
  /\ UNCHANGED <<server, env, now, pending_actions, inserted, user_slack_tokens,
                 user_gmail_tokens, mailbox, oauth2Client, faultsLeft>>

\* getToken has answered: oauth2Client.setCredentials(tokens) and the page with
\* the token; or it has thrown: 500.
LegacySetCredentials(t) ==
  /\ tasks[t].pc = "legacy_token"
  /\ LET tk == [tasks[t] EXCEPT !.apiCalls = @ + 1] IN
       \/ /\ tk.req.code \in DOMAIN Grants
          /\ oauth2Client' = Grants[tk.req.code].refresh_token
          /\ tasks' = [tasks EXCEPT ![t] =
                         Respond([Logged(tk, "log:token") EXCEPT
                                    !.token = Grants[tk.req.code].refresh_token],
                                 200, "Gmail Connected!")]
       \/ /\ tasks' = [tasks EXCEPT ![t] = OAuthFailed(tk)]
          /\ UNCHANGED oauth2Client
  /\ UNCHANGED <<server, env, now, pending_actions, inserted, user_slack_tokens,
                 user_gmail_tokens, mailbox, faultsLeft>>

\* /gmail/webhook up to its first await.
LegacyWebhookStart(t) ==
  /\ tasks[t].pc = "legacy_gmail_webhook_start"
  /\ LET tk == tasks[t] IN
       IF tk.req.data.form = "absent"
         THEN tasks' = [tasks EXCEPT ![t] = Respond(tk, 200, "No data")]
       ELSE IF tk.req.data.form = "malformed"
         THEN tasks' = [tasks EXCEPT ![t] = AfterThrow(tk)]
       ELSE tasks' = [tasks EXCEPT ![t].pc = "history_list"]
  /\ UNCHANGED <<server, env, now, pending_actions, inserted, user_slack_tokens,
                 user_gmail_tokens, mailbox, oauth2Client, faultsLeft>>

\* history.list({ startHistoryId, historyTypes: ['messageAdded'] }): the messages
\* added to the mailbox after the cursor, in the order they were added (the
\* mailbox is kept newest first).
RECURSIVE AddedSince(_, _)
AddedSince(msgs, cursor) ==
  IF msgs = <<>> THEN <<>>
  ELSE AddedSince(Tail(msgs), cursor)
         \o (IF Head(msgs).historyId > cursor THEN <<Head(msgs)>> ELSE <<>>)

\* await gmail.users.history.list(...): sent with the credentials oauth2Client
\* holds now; without credentials, or when the provider fails, it throws.
LegacyHistoryList(t) ==
  /\ tasks[t].pc = "history_list"
  /\ LET tk == [tasks[t] EXCEPT !.apiCalls = @ + 1,
                                !.used = @ \cup {oauth2Client},
                                !.token = oauth2Client]
     IN \/ /\ oauth2Client # Null
           /\ tasks' = [tasks EXCEPT ![t] =
                          GmailNext([tk EXCEPT !.msgs =
                             AddedSince(mailbox[oauth2Client], tk.req.data.historyId)])]
        \/ tasks' = [tasks EXCEPT ![t] = AfterThrow(tk)]
  /\ UNCHANGED <<server, env, now, pending_actions, inserted, user_slack_tokens,
                 user_gmail_tokens, mailbox, oauth2Client, faultsLeft>>

\* The messages of a mailbox with the given id.
WithId(msgs, id) == {k \in 1..Len(msgs) : msgs[k].id = id}

\* await gmail.users.messages.get({ id }) for added message i, sent with the
\* credentials oauth2Client holds now (it throws for an id the mailbox does not
\* have), then the UNREAD test and the saveToSupabase call.
LegacyGet(t) ==
  /\ tasks[t].pc = "legacy_get"
  /\ LET tk == [tasks[t] EXCEPT !.apiCalls = @ + 1,
                                !.used = @ \cup {oauth2Client},
                                !.token = oauth2Client]
         id == tk.msgs[tk.i].id
     IN \/ /\ oauth2Client # Null
           /\ WithId(mailbox[oauth2Client], id) # {}
           /\ LET msg == mailbox[oauth2Client]
                            [CHOOSE k \in WithId(mailbox[oauth2Client], id) : TRUE]
              IN IF "UNREAD" \in msg.labelIds
                   THEN tasks' = [tasks EXCEPT ![t] =
                                    CallSave(tk, GmailSaveArgs(msg, Null), inserted)]
                 ELSE tasks' = [tasks EXCEPT ![t] =
                                  GmailNext([tk EXCEPT !.nfiltered = @ + 1])]
        \/ tasks' = [tasks EXCEPT ![t] = AfterThrow(tk)]
  /\ UNCHANGED <<server, env, now, pending_actions, inserted, user_slack_tokens,
                 user_gmail_tokens, mailbox, oauth2Client, faultsLeft>>

----------------------------------------------------------------------------
(* The environment: requests arrive, the clock advances. *)

\* Request req arrives on a route and its handler is entered as task t (tasks are
\* numbered in the order of arrival).
Receive(t, route, req) ==
  /\ tasks[t].pc = "idle"
  /\ \A u \in TaskIds : u < t => tasks[u].pc # "idle"
  /\ tasks' = [tasks EXCEPT ![t] = NewTask(route, req)]
  /\ UNCHANGED <<server, env, now, pending_actions, inserted, user_slack_tokens,
                 user_gmail_tokens, mailbox, oauth2Client, faultsLeft>>

Tick ==
  /\ now < Epoch + MaxTicks
  /\ now' = now + 1
  /\ UNCHANGED <<server, env, pending_actions, inserted, user_slack_tokens,
                 user_gmail_tokens, mailbox, oauth2Client, tasks, faultsLeft>>

----------------------------------------------------------------------------
(* The requests and stored data the specifications draw from. *)

SlackRequest(timestamp, signature, raw) ==
  [kind |-> "slack", timestamp |-> timestamp, signature |-> signature, raw |-> raw]

\* req.body.message?.data: absent, not the base64 of a JSON text (JSON.parse
\* throws), or the base64 of { emailAddress, historyId }.
NoData == [form |-> "absent", emailAddress |-> Null, historyId |-> 0]
MalformedData == [form |-> "malformed", emailAddress |-> Null, historyId |-> 0]
Notification(emailAddress, historyId) ==
  [form |-> "json", emailAddress |-> emailAddress, historyId |-> historyId]

GmailPush(data) == [kind |-> "gmail_push", data |-> data]

GmailSyncRequest(user_id, maxResults) ==
  [kind |-> "gmail_sync", user_id |-> user_id, maxResults |-> maxResults]

\* Two direct messages of workspace T1, unsigned (no signing secret is configured
\* where they are used).
DirectMessages ==
  { SlackRequest(NoHeader, NoHeader,
                 [value |-> EventCallback("T1", DMEvent("D1", ts, "U1", "hi")),
                  fmt |-> "compact"]) : ts \in {"1.1", "1.2"} }

SlackCredentials ==
  { [user_id |-> "u1", team_id |-> "T1", team_name |-> "Acme", bot_token |-> "xoxb-1"] }

GmailCredentials ==
  { [user_id |-> "u1", email_address |-> "ada@x.com", refresh_token |-> "rt-1"] }

\* The mailbox behind refresh token rt-1, newest first; historyId is the
\* mailbox's history id when the message was added.
Mailboxes ==
  [token \in {"rt-1"} |->
     << [id |-> "m2", labelIds |-> {"INBOX", "CATEGORY_PROMOTIONS"},
         from |-> "Shop <shop@x.com>", subject |-> "Sale", messageId |-> "<p@mail>",
         historyId |-> 9],
        [id |-> "m1", labelIds |-> {"INBOX"},
         from |-> "Bob <bob@co.com>", subject |-> "Q3 report",
         messageId |-> "<abc@mail>", historyId |-> 5] >>]

EmailRequests ==
  { GmailPush(NoData), GmailPush(MalformedData),
    GmailPush(Notification("ada@x.com", 7)),
    GmailPush(Notification("eve@x.com", 7)),
    GmailSyncRequest(Null, Omitted), GmailSyncRequest("u1", Omitted),
    GmailSyncRequest("u1", Given(1)), GmailSyncRequest("u9", Omitted) }

RouteOf(req) ==
  IF req.kind = "slack" THEN "slack_webhook"
  ELSE IF req.kind = "gmail_push" THEN "gmail_webhook"
  ELSE "gmail_sync"

\* The state after start-up that all specifications share: an empty
\* pending_actions table, one connected chat workspace and one connected mailbox,
\* no request yet.
InitStored ==
  /\ now = Epoch
  /\ pending_actions = <<>>
  /\ inserted = <<>>
  /\ user_slack_tokens = SlackCredentials
  /\ user_gmail_tokens = GmailCredentials
  /\ mailbox = Mailboxes
  /\ oauth2Client = Null
  /\ tasks = [t \in TaskIds |-> IdleTask]

----------------------------------------------------------------------------
(* Specification SpecDedup: redelivered and concurrent deliveries of direct  *)
(* messages, to either server, with storage failures.                        *)

InitDedup ==
  /\ server \in {"multi", "legacy"}
  /\ env \in {e \in [SLACK_SIGNING_SECRET : {Null}, SLACK_BOT_TOKEN : {Null, "xoxb-0"}] :
                server = "multi" => e.SLACK_BOT_TOKEN = Null}
  /\ InitStored
  /\ faultsLeft = MaxFaults

DeliverDirectMessage(t) ==
  \E req \in DirectMessages : Receive(t, "slack_webhook", req)

NextDedup ==
  \E t \in TaskIds :
     \/ DeliverDirectMessage(t)
     \/ SlackWebhookStart(t)
     \/ SlackLookupTenant(t)
     \/ SlackFetchProfile(t)
     \/ DuplicateCheck(t)
     \/ InsertPending(t)

SpecDedup == InitDedup /\ [][NextDedup]_vars

(* Specification SpecRace: the same deliveries with a storage layer that never *)
(* fails, so that handlers differ only in how they interleave.                *)

InitRace ==
  /\ server \in {"multi", "legacy"}
  /\ env \in {e \in [SLACK_SIGNING_SECRET : {Null}, SLACK_BOT_TOKEN : {Null, "xoxb-0"}] :
                server = "multi" => e.SLACK_BOT_TOKEN = Null}
  /\ InitStored
  /\ faultsLeft = 0

SpecRace == InitRace /\ [][NextDedup]_vars

----------------------------------------------------------------------------
(* Specification SpecAuth: one chat webhook request with any combination of  *)
(* timestamp header, signature header and body, with and without a signing   *)
(* secret configured, while the clock advances.                               *)

SigningSecret == "s3cret"

AuthBodies ==
  { UrlVerification("c-1"),
    EventCallback("T1", DMEvent("D1", "1.1", "U1", "hi")),
    EventCallback("T1", [DMEvent("D1", "1.1", "U1", "hi") EXCEPT !.bot_id = "B1"]),
    EventCallback("T1", [DMEvent("C1", "1.1", "U1", "hi") EXCEPT !.channel_type = "channel"]) }

AuthRaws == [value : AuthBodies, fmt : Formats]

\* No header, just stale at Epoch, just fresh at Epoch (stale one second later), fresh.
AuthTimestamps ==
  { NoHeader, Header(Epoch - FiveMinutes - 1), Header(Epoch - FiveMinutes), Header(Epoch) }

\* No header, a string of another length, a string of the right length that is no
\* digest under a known key, and the signatures a holder of key k computes over the
\* timestamp and some raw body.
AuthSignatures(timestamp) ==
  { NoHeader,
    Header([bytes |-> 6, text |-> <<"v0=", [key |-> Null, msg |-> <<>>]>>]),
    Header([bytes |-> SignatureBytes, text |-> <<"v0=", [key |-> Null, msg |-> <<>>]>>]) }
  \cup { Header(SignatureOf(k, timestamp, raw)) :
           k \in {SigningSecret, "guess"}, raw \in AuthRaws }

AuthRequests ==
  UNION { { SlackRequest(ts, sig, raw) : sig \in AuthSignatures(ts), raw \in AuthRaws } :
          ts \in AuthTimestamps }

InitAuth ==
  /\ server \in {"multi", "legacy"}
  /\ env \in [SLACK_SIGNING_SECRET : {Null, SigningSecret}, SLACK_BOT_TOKEN : {Null}]
  /\ InitStored
  /\ faultsLeft = MaxFaults

DeliverChatRequest ==
  \E req \in AuthRequests : Receive(1, "slack_webhook", req)

NextAuth ==
  \/ DeliverChatRequest
  \/ Tick
  \/ \E t \in TaskIds :
        \/ SlackWebhookStart(t)
        \/ SlackLookupTenant(t)
        \/ SlackFetchProfile(t)
        \/ DuplicateCheck(t)
        \/ InsertPending(t)

SpecAuth == InitAuth /\ [][NextAuth]_vars

----------------------------------------------------------------------------
(* Specification SpecFail: the multi-user server with email pushes, email     *)
(* syncs and direct messages, storage and provider failures.                  *)

InitFail ==
  /\ server = "multi"
  /\ env = [SLACK_SIGNING_SECRET |-> Null, SLACK_BOT_TOKEN |-> Null]
  /\ InitStored
  /\ faultsLeft = MaxFaults

\* The direct message that arrives next to the email requests.
OneDirectMessage == {req \in DirectMessages : JSONparse(req.raw).event.ts = "1.1"}

DeliverAny(t) ==
  \/ \E req \in EmailRequests : Receive(t, RouteOf(req), req)
  \/ \E req \in OneDirectMessage : Receive(t, RouteOf(req), req)

NextFail ==
  \E t \in TaskIds :
     \/ DeliverAny(t)
     \/ SlackWebhookStart(t)
     \/ SlackLookupTenant(t)
     \/ SlackFetchProfile(t)
     \/ GmailWebhookStart(t)
     \/ GmailSyncStart(t)
     \/ GmailLookup(t)
     \/ GmailList(t)
     \/ GmailGet(t)
     \/ DuplicateCheck(t)
     \/ InsertPending(t)

SpecFail == InitFail /\ [][NextFail]_vars

----------------------------------------------------------------------------
(* Specification SpecFlow: the multi-user server with email pushes and chat   *)
(* events of every kind, a storage layer that never fails, and handlers that  *)
(* always get to run (the event loop runs every continuation that is ready).  *)

\* Chat events, unsigned: direct messages of a connected (T1) and of an unknown
\* (T9) workspace, a channel message, a direct message of a bot, an edited
\* direct message.
ChatEvents ==
  { EventCallback("T1", DMEvent("D1", "1.1", "U1", "hi")),
    EventCallback("T9", DMEvent("D9", "9.1", "U9", "hi")),
    EventCallback("T1", [DMEvent("C1", "2.1", "U1", "hi") EXCEPT !.channel_type = "channel"]),
    EventCallback("T1", [DMEvent("D1", "3.1", "U1", "hi") EXCEPT !.bot_id = "B1"]),
    EventCallback("T1", [DMEvent("D1", "4.1", "U1", "hi") EXCEPT !.subtype = "message_changed"]),
    EventCallback("T1", [DMEvent("D1", "5.1", "U1", "hi") EXCEPT !.type = "reaction_added"]) }

FlowRequests ==
  { SlackRequest(NoHeader, NoHeader, [value |-> body, fmt |-> "compact"]) :
      body \in ChatEvents }
  \cup { GmailPush(Notification("ada@x.com", 7)), GmailPush(Notification("eve@x.com", 7)) }

InitFlow ==
  /\ server = "multi"
  /\ env = [SLACK_SIGNING_SECRET |-> Null, SLACK_BOT_TOKEN |-> Null]
  /\ InitStored
  /\ faultsLeft = 0

DeliverEvent(t) ==
  \E req \in FlowRequests : Receive(t, RouteOf(req), req)

\* The continuations of the handler of request t.
HandlerStep(t) ==
  \/ SlackWebhookStart(t)
  \/ SlackLookupTenant(t)
  \/ SlackFetchProfile(t)
  \/ GmailWebhookStart(t)
  \/ GmailLookup(t)
  \/ GmailList(t)
  \/ GmailGet(t)
  \/ DuplicateCheck(t)
  \/ InsertPending(t)

NextFlow ==
  \E t \in TaskIds :
     \/ DeliverEvent(t)
     \/ HandlerStep(t)

SpecFlow ==
  InitFlow /\ [][NextFlow]_vars /\ \A t \in TaskIds : WF_vars(HandlerStep(t))

----------------------------------------------------------------------------
(* Specification SpecMail: the multi-user server with one connected mailbox   *)
(* that holds one message, of any label set or any From header of the forms   *)
(* below, read by email pushes and syncs; the storage layer never fails.      *)

\* Most labels a message carries.
MaxLabels == 2

Labels ==
  {"INBOX", "CATEGORY_PROMOTIONS", "CATEGORY_SOCIAL", "CATEGORY_FORUMS", "SPAM", "TRASH"}

LabelSets == {S \in SUBSET Labels : Cardinality(S) <= MaxLabels}

\* From headers with the sender they stand for: a display name, bare or in quotes
\* or with quotes inside, up to two blanks, and the address in angle brackets;
\* the address alone; the address in angle brackets alone.
DisplayNames == {"Ada Lovelace", "J. R. Doe"}
Addresses == {"b.c@mail.co.uk"}

Quoted(name, how) ==
  IF how = "bare" THEN name
  ELSE IF how = "quoted" THEN "\"" \o name \o "\""
  ELSE "\"" \o SubSeq(name, 1, 1) \o "\"" \o SubSeq(name, 2, Len(name))

SenderCases ==
  { [from |-> Quoted(name, how) \o gap \o "<" \o addr \o ">", sender |-> name] :
      name \in DisplayNames, how \in {"bare", "quoted", "inside"},
      gap \in {"", " ", "  "}, addr \in Addresses }
  \cup { [from |-> addr, sender |-> addr] : addr \in Addresses }
  \cup { [from |-> "<" \o addr \o ">", sender |-> addr] : addr \in Addresses }

MailCases ==
  { [id |-> "m1", labelIds |-> S, from |-> "Bob <bob@co.com>", subject |-> "Q3 report",
     messageId |-> "<abc@mail>", historyId |-> 9] : S \in LabelSets }
  \cup { [id |-> "m1", labelIds |-> {"INBOX"}, from |-> c.from, subject |-> "Q3 report",
          messageId |-> "<abc@mail>", historyId |-> 9] : c \in SenderCases }

MailRequests ==
  { GmailPush(Notification("ada@x.com", 7)), GmailSyncRequest("u1", Omitted) }

InitMail ==
  /\ server = "multi"
  /\ env = [SLACK_SIGNING_SECRET |-> Null, SLACK_BOT_TOKEN |-> Null]
  /\ now = Epoch
  /\ pending_actions = <<>>
  /\ inserted = <<>>
  /\ user_slack_tokens = SlackCredentials
  /\ user_gmail_tokens = GmailCredentials
  /\ mailbox \in {[token \in {"rt-1"} |-> <<m>>] : m \in MailCases}
  /\ oauth2Client = Null
  /\ tasks = [t \in TaskIds |-> IdleTask]
  /\ faultsLeft = 0

DeliverMail(t) ==
  \E req \in MailRequests : Receive(t, RouteOf(req), req)

NextMail ==
  \E t \in TaskIds :
     \/ DeliverMail(t)
     \/ GmailWebhookStart(t)
     \/ GmailSyncStart(t)
     \/ GmailLookup(t)
     \/ GmailList(t)
     \/ GmailGet(t)
     \/ DuplicateCheck(t)
     \/ InsertPending(t)

SpecMail == InitMail /\ [][NextMail]_vars

----------------------------------------------------------------------------
(* Specification SpecSummary: direct messages with texts of lengths around    *)
(* the truncation limit, to either server; the storage layer never fails.     *)

\* The longest message text.
MaxTextLen == 150

\* The text of n characters: the digits 1234567890 over and over.
RECURSIVE DigitText(_)
DigitText(n) ==
  IF n <= 10 THEN SubSeq("1234567890", 1, n)
  ELSE "1234567890" \o DigitText(n - 10)

TextLengths == {0, SummaryMax, SummaryMax + 1, MaxTextLen}

TextMessages ==
  { SlackRequest(NoHeader, NoHeader,
                 [value |-> EventCallback("T1", DMEvent("D1", "1.1", "U1", DigitText(n))),
                  fmt |-> "compact"]) : n \in TextLengths }

InitSummary ==
  /\ server \in {"multi", "legacy"}
  /\ env = [SLACK_SIGNING_SECRET |-> Null, SLACK_BOT_TOKEN |-> Null]
  /\ InitStored
  /\ faultsLeft = 0

DeliverText(t) ==
  \E req \in TextMessages : Receive(t, "slack_webhook", req)

NextSummary ==
  \E t \in TaskIds :
     \/ DeliverText(t)
     \/ SlackWebhookStart(t)
     \/ SlackLookupTenant(t)
     \/ SlackFetchProfile(t)
     \/ DuplicateCheck(t)
     \/ InsertPending(t)

SpecSummary == InitSummary /\ [][NextSummary]_vars

----------------------------------------------------------------------------
(* Specification SpecConnect: the multi-user server with one connected        *)
(* mailbox (ada@x.com of user u1), requests to connect accounts, to start     *)
(* the watch and to sync; the storage layer never fails.                      *)

AuthRequest(kind, user_id) == [kind |-> kind, user_id |-> user_id]

CallbackRequest(code, state) ==
  [kind |-> "google_callback", code |-> code, state |-> state]

\* The consent requests, with and without user_id.
ConsentRequests ==
  { AuthRequest(kind, user_id) :
      kind \in {"auth_google", "auth_slack"}, user_id \in {Null, "u1"} }

\* u1 connects a second account, u2 connects the account u1 has connected, a
\* code the provider does not accept, a callback without state.
CallbackRequests ==
  { CallbackRequest("code-b", Given(EncodeState("u1"))),
    CallbackRequest("code-a", Given(EncodeState("u2"))),
    CallbackRequest("bad", Given(EncodeState("u1"))),
    CallbackRequest("code-b", Omitted) }

WatchRequests ==
  { AuthRequest("gmail_watch", user_id) : user_id \in {Null, "", "u1", "u2"} }

SyncRequests ==
  { GmailSyncRequest(user_id, Omitted) : user_id \in {Null, "", "u1", "u2"} }

InitConnect ==
  /\ server = "multi"
  /\ env = [SLACK_SIGNING_SECRET |-> Null, SLACK_BOT_TOKEN |-> Null]
  /\ now = Epoch
  /\ pending_actions = <<>>
  /\ inserted = <<>>
  /\ user_slack_tokens = SlackCredentials
  /\ user_gmail_tokens = GmailCredentials
  /\ mailbox = [token \in {"rt-1", "rt-2"} |-> Mailboxes["rt-1"]]
  /\ oauth2Client = Null
  /\ tasks = [t \in TaskIds |-> IdleTask]
  /\ faultsLeft = 0

DeliverConnect(t) ==
  \/ \E req \in ConsentRequests : Receive(t, req.kind, req)
  \/ \E req \in CallbackRequests : Receive(t, req.kind, req)
  \/ \E req \in WatchRequests : Receive(t, req.kind, req)
  \/ \E req \in SyncRequests : Receive(t, req.kind, req)

NextConnect ==
  \E t \in TaskIds :
     \/ DeliverConnect(t)
     \/ AuthGoogle(t)
     \/ AuthSlack(t)
     \/ GoogleCallbackStart(t)
     \/ GoogleGetToken(t)
     \/ GoogleGetProfile(t)
     \/ GoogleUpsert(t)
     \/ GmailWatchStart(t)
     \/ GmailWatchLookup(t)
     \/ GmailWatchCall(t)
     \/ GmailSyncStart(t)
     \/ GmailLookup(t)
     \/ GmailList(t)
     \/ GmailGet(t)
     \/ DuplicateCheck(t)
     \/ InsertPending(t)

SpecConnect == InitConnect /\ [][NextConnect]_vars

----------------------------------------------------------------------------
(* Specification SpecTenants: tenants connect and re-connect mailboxes and    *)
(* workspaces while notifications and direct messages of those accounts       *)
(* arrive; the storage layer answers every query.                             *)

SlackCallbackRequest(code, state) ==
  [kind |-> "slack_callback", code |-> code, state |-> state]

\* u1 authorizes the mailbox it has connected once more, u2 authorizes that
\* mailbox; u1 authorizes the workspace it has connected once more, u2
\* authorizes that workspace.
TenantCallbacks ==
  { CallbackRequest("code-c", Given(EncodeState("u1"))),
    CallbackRequest("code-a", Given(EncodeState("u2"))),
    SlackCallbackRequest("scode-1", Given(EncodeState("u1"))),
    SlackCallbackRequest("scode-1", Given(EncodeState("u2"))) }

\* A notification for the connected mailbox and a direct message of the
\* connected workspace.
TenantEvents ==
  { GmailPush(Notification("ada@x.com", 7)),
    SlackRequest(NoHeader, NoHeader,
                 [value |-> EventCallback("T1", DMEvent("D1", "1.1", "U1", "hi")),
                  fmt |-> "compact"]) }

InitTenants ==
  /\ server = "multi"
  /\ env = [SLACK_SIGNING_SECRET |-> Null, SLACK_BOT_TOKEN |-> Null]
  /\ now = Epoch
  /\ pending_actions = <<>>
  /\ inserted = <<>>
  /\ user_slack_tokens = SlackCredentials
  /\ user_gmail_tokens = GmailCredentials
  /\ mailbox = [token \in {"rt-1", "rt-3"} |-> <<>>]
  /\ oauth2Client = Null
  /\ tasks = [t \in TaskIds |-> IdleTask]
  /\ faultsLeft = 0

DeliverTenant(t) ==
  \/ \E req \in TenantCallbacks : Receive(t, req.kind, req)
  \/ \E req \in TenantEvents : Receive(t, RouteOf(req), req)

NextTenants ==
  \E t \in TaskIds :
     \/ DeliverTenant(t)
     \/ GoogleCallbackStart(t)
     \/ GoogleGetToken(t)
     \/ GoogleGetProfile(t)
     \/ GoogleUpsert(t)
     \/ SlackCallbackStart(t)
     \/ SlackOAuthAccess(t)
     \/ SlackUpsert(t)
     \/ GmailWebhookStart(t)
     \/ GmailLookup(t)
     \/ GmailList(t)
     \/ SlackWebhookStart(t)
     \/ SlackLookupTenant(t)
     \/ SlackFetchProfile(t)
     \/ DuplicateCheck(t)
     \/ InsertPending(t)

SpecTenants == InitTenants /\ [][NextTenants]_vars

----------------------------------------------------------------------------
(* Specification SpecCallback: tenants ask for consent and the providers      *)
(* redirect them to the callbacks, with codes the provider accepts or         *)
(* refuses, with and without the state of a redirect, while the storage layer *)
(* may fail.                                                                  *)

\* The user ids the extension sends: a plain one, and ones with the characters
\* JSON escapes.
UserIds == {"u1", "o\"k", "c\\d"}

\* The state a redirect of /auth/{provider} carries in its query string.
StateMark == "?state="
StateOfRedirect(reply) ==
  LET at == CHOOSE i \in 1..Len(reply) :
               SubSeq(reply, i, i + Len(StateMark) - 1) = StateMark
  IN SubSeq(reply, at + Len(StateMark), Len(reply))

\* The states the provider has been given by answered consent requests.
IssuedStates ==
  { StateOfRedirect(tasks[u].reply) : u \in {v \in TaskIds : tasks[v].status = 302} }

\* A state that is not the base64 of a JSON text.
GarbledState == "xyz"

\* The state of a consent request of u1 that was answered before start-up.
EarlierState == EncodeState("u1")

\* The callbacks: the provider redirects the browser with a code (one it accepts
\* or one it refuses) and the state it was given; or the callback is called with
\* no state or a garbled one.
DeliverCallback(t) ==
  \E kind \in {"google_callback", "slack_callback"} :
  \E code \in {"code-a", "scode-1", "bad"} :
  \E state \in {Given(s) : s \in IssuedStates \cup {EarlierState, GarbledState}}
                 \cup {Omitted} :
     /\ code = "code-a" => kind = "google_callback"
     /\ code = "scode-1" => kind = "slack_callback"
     /\ Receive(t, kind, [kind |-> kind, code |-> code, state |-> state])

DeliverConsent(t) ==
  \E kind \in {"auth_google", "auth_slack"} : \E user_id \in UserIds :
     Receive(t, kind, AuthRequest(kind, user_id))

InitCallback ==
  /\ server = "multi"
  /\ env = [SLACK_SIGNING_SECRET |-> Null, SLACK_BOT_TOKEN |-> Null]
  /\ InitStored
  /\ faultsLeft = MaxFaults

NextCallback ==
  \E t \in TaskIds :
     \/ DeliverConsent(t)
     \/ DeliverCallback(t)
     \/ AuthGoogle(t)
     \/ AuthSlack(t)
     \/ GoogleCallbackStart(t)
     \/ GoogleGetToken(t)
     \/ GoogleGetProfile(t)
     \/ GoogleUpsert(t)
     \/ SlackCallbackStart(t)
     \/ SlackOAuthAccess(t)
     \/ SlackUpsert(t)

SpecCallback == InitCallback /\ [][NextCallback]_vars

----------------------------------------------------------------------------
(* Specification SpecPending: everything in the repository that writes        *)
(* pending_actions: the chat webhook of either server, DELETE /pending/:id of *)
(* server.js and the script src/index.js; the storage layer answers.          *)

DeleteRequest(id) == [kind |-> "pending_delete", id |-> id]

ScriptRun(random) == [kind |-> "simple_test", random |-> random]

\* DELETE /pending/:id for the ids of the first rows; only server.js has the route.
DeliverDelete(t) ==
  /\ server = "legacy"
  /\ \E id \in 1..MaxTasks : Receive(t, "pending_delete", DeleteRequest(id))

\* node src/index.js
RunScript(t) ==
  \E random \in {"0.25"} : Receive(t, "simple_test", ScriptRun(random))

NextPending ==
  \E t \in TaskIds :
     \/ DeliverDirectMessage(t)
     \/ DeliverDelete(t)
     \/ RunScript(t)
     \/ SlackWebhookStart(t)
     \/ SlackLookupTenant(t)
     \/ SlackFetchProfile(t)
     \/ DuplicateCheck(t)
     \/ InsertPending(t)
     \/ PendingDelete(t)
     \/ SimpleTest(t)

SpecPending == InitRace /\ [][NextPending]_vars

----------------------------------------------------------------------------
(* Specification SpecMessageId: a mailbox of two kept emails, whose           *)
(* Message-ID headers are equal, different or absent, is notified and synced. *)

\* The Message-ID headers of the two emails ("" for an email without one).
MessageIdHeaders == {"<abc@mail>", "<xyz@mail>", ""}

TwoEmails ==
  { << [id |-> "m2", labelIds |-> {"INBOX"}, from |-> "Bob <bob@co.com>",
        subject |-> "Q3 report", messageId |-> h2, historyId |-> 9],
       [id |-> "m1", labelIds |-> {"INBOX"}, from |-> "Bob <bob@co.com>",
        subject |-> "Q3 report", messageId |-> h1, historyId |-> 8] >> :
      h1 \in {"<abc@mail>", ""}, h2 \in MessageIdHeaders }

InitMessageId ==
  /\ server = "multi"
  /\ env = [SLACK_SIGNING_SECRET |-> Null, SLACK_BOT_TOKEN |-> Null]
  /\ now = Epoch
  /\ pending_actions = <<>>
  /\ inserted = <<>>
  /\ user_slack_tokens = SlackCredentials
  /\ user_gmail_tokens = GmailCredentials
  /\ mailbox \in {[token \in {"rt-1"} |-> msgs] : msgs \in TwoEmails}
  /\ oauth2Client = Null
  /\ tasks = [t \in TaskIds |-> IdleTask]
  /\ faultsLeft = 0

SpecMessageId == InitMessageId /\ [][NextMail]_vars

----------------------------------------------------------------------------
(* Specification SpecKeys: direct messages that agree or differ in           *)
(* workspace, channel and timestamp arrive at either server; the storage      *)
(* layer answers.                                                             *)

\* A direct message and the three that differ from it in one of workspace,
\* channel and timestamp.
KeyedEvents ==
  { EventCallback("T1", DMEvent("D1", "1.1", "U1", "hi")),
    EventCallback("T2", DMEvent("D1", "1.1", "U1", "hi")),
    EventCallback("T1", DMEvent("D2", "1.1", "U1", "hi")),
    EventCallback("T1", DMEvent("D1", "1.2", "U1", "hi")) }

KeyedMessages ==
  { SlackRequest(NoHeader, NoHeader, [value |-> body, fmt |-> "compact"]) :
      body \in KeyedEvents }

\* Both workspaces are connected.
InitKeys ==
  /\ server \in {"multi", "legacy"}
  /\ env = [SLACK_SIGNING_SECRET |-> Null, SLACK_BOT_TOKEN |-> Null]
  /\ now = Epoch
  /\ pending_actions = <<>>
  /\ inserted = <<>>
  /\ user_slack_tokens = SlackCredentials \cup
       { [user_id |-> "u2", team_id |-> "T2", team_name |-> "Beta",
          bot_token |-> "xoxb-3"] }
  /\ user_gmail_tokens = GmailCredentials
  /\ mailbox = Mailboxes
  /\ oauth2Client = Null
  /\ tasks = [t \in TaskIds |-> IdleTask]
  /\ faultsLeft = 0

DeliverKeyed(t) ==
  \E req \in KeyedMessages : Receive(t, "slack_webhook", req)

NextKeys ==
  \E t \in TaskIds :
     \/ DeliverKeyed(t)
     \/ SlackWebhookStart(t)
     \/ SlackLookupTenant(t)
     \/ SlackFetchProfile(t)
     \/ DuplicateCheck(t)
     \/ InsertPending(t)

SpecKeys == InitKeys /\ [][NextKeys]_vars

----------------------------------------------------------------------------
(* Specification SpecShared: two mailboxes with several unread messages,      *)
(* pushes for both, to either server; on the single-user server also the      *)
(* OAuth callback. The storage layer may fail MaxFaults times.                *)

SharedMailboxes ==
  [token \in {"rt-1", "rt-2"} |->
     IF token = "rt-1"
       THEN << [id |-> "m3", labelIds |-> {"INBOX", "UNREAD"},
                from |-> "Cy <cy@co.com>", subject |-> "Lunch",
                messageId |-> "<c@mail>", historyId |-> 9],
               [id |-> "m2", labelIds |-> {"INBOX", "UNREAD"},
                from |-> "Bob <bob@co.com>", subject |-> "Q3 report",
                messageId |-> "<b@mail>", historyId |-> 8],
               [id |-> "m1", labelIds |-> {"INBOX", "UNREAD"},
                from |-> "Al <al@co.com>", subject |-> "Hello",
                messageId |-> "<a@mail>", historyId |-> 5] >>
     ELSE << [id |-> "w1", labelIds |-> {"INBOX", "UNREAD"},
              from |-> "Di <di@co.com>", subject |-> "Notes",
              messageId |-> "<d@mail>", historyId |-> 9] >>]

SharedCredentials ==
  { [user_id |-> "u1", email_address |-> "ada@x.com", refresh_token |-> "rt-1"],
    [user_id |-> "u2", email_address |-> "ada@work.com", refresh_token |-> "rt-2"] }

\* Notifications for both mailboxes, with a cursor between their messages.
SharedPushes ==
  { GmailPush(Notification("ada@x.com", 7)), GmailPush(Notification("ada@work.com", 7)) }

\* The single-user server's callback requests: a code the provider grants for
\* the second mailbox, and one it refuses.
LegacyCallbacks ==
  { [kind |-> "legacy_callback", code |-> code] : code \in {"code-b", "bad"} }

InitShared ==
  /\ server \in {"multi", "legacy"}
  /\ env = [SLACK_SIGNING_SECRET |-> Null, SLACK_BOT_TOKEN |-> Null]
  /\ now = Epoch
  /\ pending_actions = <<>>
  /\ inserted = <<>>
  /\ user_slack_tokens = {}
  /\ user_gmail_tokens = IF server = "multi" THEN SharedCredentials ELSE {}
  /\ mailbox = SharedMailboxes
  /\ oauth2Client = IF server = "multi" THEN Null ELSE "rt-1"
  /\ tasks = [t \in TaskIds |-> IdleTask]
  /\ faultsLeft \in 0..MaxFaults

DeliverShared(t) ==
  \/ /\ server = "multi"
     /\ \E req \in SharedPushes : Receive(t, "gmail_webhook", req)
  \/ /\ server = "legacy"
     /\ \/ \E req \in SharedPushes : Receive(t, "legacy_gmail_webhook", req)
        \/ \E req \in LegacyCallbacks : Receive(t, "legacy_google_callback", req)

NextShared ==
  \E t \in TaskIds :
     \/ DeliverShared(t)
     \/ GmailWebhookStart(t)
     \/ GmailLookup(t)
     \/ GmailList(t)
     \/ GmailGet(t)
     \/ LegacyCallbackStart(t)
     \/ LegacySetCredentials(t)
     \/ LegacyWebhookStart(t)
     \/ LegacyHistoryList(t)
     \/ LegacyGet(t)
     \/ DuplicateCheck(t)
     \/ InsertPending(t)

SpecShared == InitShared /\ [][NextShared]_vars

----------------------------------------------------------------------------
(* Specification SpecLabels: one connected mailbox holding one message, whose *)
(* labels are any set of the labels below, read by one email push; the        *)
(* storage layer never fails.                                                 *)

AllLabels ==
  {"INBOX", "UNREAD", "CATEGORY_PROMOTIONS", "CATEGORY_SOCIAL", "CATEGORY_UPDATES",
   "CATEGORY_FORUMS", "SPAM", "TRASH"}

InitLabels ==
  /\ server = "multi"
  /\ env = [SLACK_SIGNING_SECRET |-> Null, SLACK_BOT_TOKEN |-> Null]
  /\ now = Epoch
  /\ pending_actions = <<>>
  /\ inserted = <<>>
  /\ user_slack_tokens = SlackCredentials
  /\ user_gmail_tokens = GmailCredentials
  /\ mailbox \in {[token \in {"rt-1"} |->
                      << [id |-> "m1", labelIds |-> S, from |-> "Bob <bob@co.com>",
                          subject |-> "Q3 report", messageId |-> "<abc@mail>",
                          historyId |-> 9] >>] : S \in SUBSET AllLabels}
  /\ oauth2Client = Null
  /\ tasks = [t \in TaskIds |-> IdleTask]
  /\ faultsLeft = 0

DeliverLabelled ==
  Receive(1, "gmail_webhook", GmailPush(Notification("ada@x.com", 7)))

NextLabels ==
  \/ DeliverLabelled
  \/ \E t \in TaskIds :
        \/ GmailWebhookStart(t)
        \/ GmailLookup(t)
        \/ GmailList(t)
        \/ GmailGet(t)
        \/ DuplicateCheck(t)
        \/ InsertPending(t)

SpecLabels == InitLabels /\ [][NextLabels]_vars

----------------------------------------------------------------------------
(* Specification SpecReassign: the mailbox ada@x.com is connected for u1; u2   *)
(* completes the callback for the same mailbox; pushes for the mailbox and     *)
(* syncs and watches of u1 arrive before and after. The storage layer never    *)
(* fails.                                                                      *)

ReassignRequests ==
  { CallbackRequest("code-c", Given(EncodeState("u2"))),
    GmailPush(Notification("ada@x.com", 7)),
    GmailSyncRequest("u1", Omitted),
    AuthRequest("gmail_watch", "u1") }

\* The one message of the mailbox, whichever refresh token it is read with.
InitReassign ==
  /\ server = "multi"
  /\ env = [SLACK_SIGNING_SECRET |-> Null, SLACK_BOT_TOKEN |-> Null]
  /\ now = Epoch
  /\ pending_actions = <<>>
  /\ inserted = <<>>
  /\ user_slack_tokens = SlackCredentials
  /\ user_gmail_tokens = GmailCredentials
  /\ mailbox = [token \in {"rt-1", "rt-3"} |-> <<SharedMailboxes["rt-1"][1]>>]
  /\ oauth2Client = Null
  /\ tasks = [t \in TaskIds |-> IdleTask]
  /\ faultsLeft = 0

DeliverReassign(t) ==
  \E req \in ReassignRequests :
     Receive(t, IF req.kind = "gmail_push" THEN "gmail_webhook" ELSE req.kind, req)

NextReassign ==
  \E t \in TaskIds :
     \/ DeliverReassign(t)
     \/ GoogleCallbackStart(t)
     \/ GoogleGetToken(t)
     \/ GoogleGetProfile(t)
     \/ GoogleUpsert(t)
     \/ GmailWebhookStart(t)
     \/ GmailSyncStart(t)
     \/ GmailLookup(t)
     \/ GmailList(t)
     \/ GmailGet(t)
     \/ GmailWatchStart(t)
     \/ GmailWatchLookup(t)
     \/ GmailWatchCall(t)
     \/ DuplicateCheck(t)
     \/ InsertPending(t)

SpecReassign == InitReassign /\ [][NextReassign]_vars

----------------------------------------------------------------------------
(* Specification SpecForeign: a push for ada@x.com has stored the mailbox's    *)
(* message for u1; then u2 completes the callback for the mailbox and further  *)
(* pushes for it arrive. The storage layer never fails, and every duplicate    *)
(* check finds the stored row, so no insert is reached.                        *)

\* What the earlier push handed to saveToSupabase.
StoredForFirstTenant == GmailSaveArgs(SharedMailboxes["rt-1"][1], "u1")

ForeignRequests ==
  { CallbackRequest("code-c", Given(EncodeState("u2"))),
    GmailPush(Notification("ada@x.com", 7)) }

InitForeign ==
  /\ server = "multi"
  /\ env = [SLACK_SIGNING_SECRET |-> Null, SLACK_BOT_TOKEN |-> Null]
  /\ now = Epoch
  /\ pending_actions = << NewRow("multi", 1, StoredForFirstTenant, Epoch) >>
  /\ inserted = << StoredForFirstTenant >>
  /\ user_slack_tokens = SlackCredentials
  /\ user_gmail_tokens = GmailCredentials
  /\ mailbox = [token \in {"rt-1", "rt-3"} |-> <<SharedMailboxes["rt-1"][1]>>]
  /\ oauth2Client = Null
  /\ tasks = [t \in TaskIds |-> IdleTask]
  /\ faultsLeft = 0

DeliverForeign(t) ==
  \E req \in ForeignRequests :
     Receive(t, IF req.kind = "gmail_push" THEN "gmail_webhook" ELSE req.kind, req)

NextForeign ==
  \E t \in TaskIds :
     \/ DeliverForeign(t)
     \/ GoogleCallbackStart(t)
     \/ GoogleGetToken(t)
     \/ GoogleGetProfile(t)
     \/ GoogleUpsert(t)
     \/ GmailWebhookStart(t)
     \/ GmailLookup(t)
     \/ GmailList(t)
     \/ GmailGet(t)
     \/ DuplicateCheck(t)

SpecForeign == InitForeign /\ [][NextForeign]_vars

----------------------------------------------------------------------------
(* Specification SpecAbort: the mailboxes and credentials of SpecShared, with *)
(* two pushes, to either server; provider calls may throw and the storage     *)
(* layer may fail MaxFaults times.                                            *)

\* The requests of this specification are the first two to arrive.
Pushers == {1, 2}

DeliverPush(t) ==
  /\ t \in Pushers
  /\ \E req \in SharedPushes :
        Receive(t, IF server = "multi" THEN "gmail_webhook" ELSE "legacy_gmail_webhook",
                req)

NextAbort ==
  \E t \in TaskIds :
     \/ DeliverPush(t)
     \/ GmailWebhookStart(t)
     \/ GmailLookup(t)
     \/ GmailList(t)
     \/ GmailGet(t)
     \/ LegacyWebhookStart(t)
     \/ LegacyHistoryList(t)
     \/ LegacyGet(t)
     \/ DuplicateCheck(t)
     \/ InsertPending(t)

SpecAbort == InitShared /\ [][NextAbort]_vars

----------------------------------------------------------------------------
(* Properties of deduplication (under SpecRace and SpecDedup). *)

\* C1: for events with the same dedup_key (the messageId argument of
\* saveToSupabase) and the same platform, at most one row is ever persisted,
\* whatever the order or interleaving of their handlers.
C1_OneRowPerKey ==
  \A i, j \in 1..Len(inserted) :
     (inserted[i].messageId = inserted[j].messageId
        /\ inserted[i].platform = inserted[j].platform) => i = j

C3_RejectedInsertIsSkip ==
  \A t \in TaskIds :
     tasks[t].rejected
        => (tasks[t].saveResult = "skipped_duplicate" /\ ~tasks[t].threw)

\* C4: every stored row has message_id equal to the dedup_key it was created from
\* and platform equal to its platform.
C4_RowStoresKey ==
  \A k \in 1..Len(pending_actions) :
     /\ Col(pending_actions[k], "message_id") = inserted[k].messageId
     /\ Col(pending_actions[k], "platform") = inserted[k].platform

----------------------------------------------------------------------------
(* Properties of signature verification (under SpecAuth). *)

SecretConfigured == env.SLACK_SIGNING_SECRET # Null

\* The request of task t is not the url_verification handshake.
IsEventRequest(t) == JSONparse(tasks[t].req.raw).type # "url_verification"

\* The signature a holder of the signing secret computes over the timestamp and the
\* bytes of a body.
SignedOver(t, raw) ==
  Header(SignatureOf(env.SLACK_SIGNING_SECRET, tasks[t].req.timestamp, raw))

\* The request's timestamp was more than five minutes old when it was handled.
StaleWhenHandled(t) ==
  /\ tasks[t].req.timestamp.set
  /\ tasks[t].req.timestamp.val < tasks[t].at - FiveMinutes

\* The request's timestamp was within five minutes when it was handled.
FreshWhenHandled(t) ==
  /\ tasks[t].req.timestamp.set
  /\ tasks[t].req.timestamp.val >= tasks[t].at - FiveMinutes

Handled(t) == tasks[t].route = "slack_webhook" /\ tasks[t].pc # "slack_webhook_start"

\* C5: with a signing secret configured, an event request signed over other bytes
\* than the body received is answered 401 and stores no row.
C5_TamperedBodyRejected ==
  \A t \in TaskIds :
     (/\ Handled(t) /\ SecretConfigured /\ IsEventRequest(t)
      /\ \E raw \in AuthRaws :
            raw # tasks[t].req.raw /\ tasks[t].req.signature = SignedOver(t, raw))
        => (tasks[t].status = 401 /\ tasks[t].nsaved = 0)

C7_ValidSignaturePasses ==
  \A t \in TaskIds :
     (/\ Handled(t) /\ SecretConfigured /\ FreshWhenHandled(t)
      /\ tasks[t].verified # "none"
      /\ tasks[t].req.signature = SignedOver(t, tasks[t].req.raw))
        => tasks[t].verified = "true"

\* The signature the code expects for the request of task t.
ExpectedSignature(t) ==
  SignedOver(t, JSONstringify(JSONparse(tasks[t].req.raw)))

\* C8: with a signing secret configured, an event request without signature header,
\* or with a signature that differs from the expected one in length or content, is
\* answered with a 4xx status and stores no row.
C8_BadSignatureIs4xx ==
  \A t \in TaskIds :
     (/\ Handled(t) /\ SecretConfigured /\ IsEventRequest(t)
      /\ tasks[t].req.signature # ExpectedSignature(t))
        => (tasks[t].status \in 400..499 /\ tasks[t].nsaved = 0)

\* C9: every request to /slack/webhook is answered, with 401 when the signature
\* check rejects it and with 200 otherwise.
C9_Only200Or401 ==
  \A t \in TaskIds :
     (tasks[t].route = "slack_webhook" /\ tasks[t].pc = "done")
        => /\ tasks[t].status \in {200, 401}
           /\ tasks[t].status = 401 <=> tasks[t].verified = "false"

----------------------------------------------------------------------------
(* Properties of failure handling (under SpecFail). *)

----------------------------------------------------------------------------
(* Properties of the ingestion of webhook events (under SpecFail, SpecFlow). *)

IsWebhook(t) == tasks[t].route \in {"gmail_webhook", "slack_webhook"}

\* C11: a webhook request whose save failed at the storage layer is not
\* acknowledged to the provider (no 2xx answer), so that the provider delivers the
\* event again.
C11_FailedSaveNotAcknowledged ==
  \A t \in TaskIds :
     (IsWebhook(t) /\ tasks[t].threw /\ tasks[t].pc = "done")
        => tasks[t].status \notin 200..299

\* The credential rows the event of request t maps to.
CredentialOf(t) ==
  IF tasks[t].route = "slack_webhook"
    THEN {r \in user_slack_tokens : r.team_id = JSONparse(tasks[t].req.raw).team_id}
  ELSE {r \in user_gmail_tokens : r.email_address = tasks[t].req.data.emailAddress}

\* The messages the event of request t brings that pass the filter policy, by
\* the key saveToSupabase gets for them.
KeptKeys(t) ==
  IF tasks[t].route = "slack_webhook"
    THEN LET body == JSONparse(tasks[t].req.raw)
         IN IF body.type = "event_callback" /\ IsDirectMessage(body.event)
                 /\ ~IsBotOrSubtype(body.event)
              THEN {SlackMessageId(body.team_id, body.event.channel, body.event.ts)}
            ELSE {}
  ELSE IF tasks[t].req.data.form # "json" \/ CredentialOf(t) = {} THEN {}
  ELSE LET cred == CHOOSE r \in CredentialOf(t) : TRUE
           listed == ListMessages(mailbox[cred.refresh_token], WebhookMaxResults)
       IN {GmailSaveArgs(listed[k], cred.user_id).messageId :
             k \in {j \in 1..Len(listed) : shouldIncludeEmail(listed[j].labelIds)}}

\* No other request has called saveToSupabase for a message of request t.
Novel(t) ==
  \A u \in TaskIds \ {t} : tasks[u].args.messageId \notin KeptKeys(t)

\* A provider call of request t has thrown (the storage layer did not).
ProviderFailed(t) ==
  ("error:" \o tasks[t].route) \in tasks[t].log /\ ~tasks[t].threw

\* Request t is a webhook event that is authentic, maps to a stored credential,
\* brings a message that passes the filter, and no provider call of it failed.
Eligible(t) ==
  /\ IsWebhook(t)
  /\ tasks[t].route = "slack_webhook" => verifySlackSignature(tasks[t].req, env.SLACK_SIGNING_SECRET, now) = "true"
  /\ CredentialOf(t) # {}
  /\ KeptKeys(t) # {}
  /\ ~ProviderFailed(t)

\* The rows stored for key k.
RowsOf(k) == {i \in 1..Len(inserted) : inserted[i].messageId = k}

\* What C12 promises of a finished request.
C12_Persisted ==
  \A t \in TaskIds :
     (Eligible(t) /\ Novel(t) /\ tasks[t].pc = "done")
        => /\ tasks[t].status = 200
           /\ tasks[t].nsaved = Cardinality(KeptKeys(t))
           /\ \A k \in KeptKeys(t) :
                 /\ Cardinality(RowsOf(k)) = 1
                 /\ \A i \in RowsOf(k), r \in CredentialOf(t) :
                       Col(pending_actions[i], "user_id") = r.user_id

\* The handler of request t has a continuation that can run: it is at one of its
\* awaits, and inside the message loop the message to fetch exists.
HasContinuation(t) ==
  \/ tasks[t].pc \in {"slack_webhook_start", "slack_lookup", "slack_profile",
                      "gmail_webhook_start", "gmail_sync_start", "gmail_lookup",
                      "gmail_list", "dedup", "insert"}
  \/ tasks[t].pc = "gmail_get" /\ tasks[t].i \in 1..Len(tasks[t].msgs)

\* C12: a webhook event that is authentic, maps to a stored credential, passes
\* the filter and is novel, with storage and providers available, always ends
\* answered 200 with exactly one new row, which carries the credential's user_id:
\* its handler can always go on until it has answered, and when it has answered
\* the row is stored.
C12_EligibleEventPersisted ==
  /\ C12_Persisted
  /\ \A t \in TaskIds :
        (Eligible(t) /\ tasks[t].pc \notin {"idle", "done"}) => HasContinuation(t)

\* An email push and a direct message have both been stored for user u1.
C12_Witness ==
  /\ \E t \in TaskIds :
        /\ tasks[t].route = "gmail_webhook" /\ Eligible(t) /\ Novel(t)
        /\ tasks[t].pc = "done" /\ tasks[t].nsaved = 1
  /\ \E t \in TaskIds :
        /\ tasks[t].route = "slack_webhook" /\ Eligible(t) /\ Novel(t)
        /\ tasks[t].pc = "done" /\ tasks[t].nsaved = 1
  /\ \A i \in 1..Len(pending_actions) : pending_actions[i].user_id = "u1"

\* C13: an email notification or direct message whose address or team has no
\* stored credential is answered 200, makes no provider API call and stores no row.
C13_UnknownTenantAcknowledged ==
  \A t \in TaskIds :
     (/\ IsWebhook(t) /\ tasks[t].pc = "done"
      /\ tasks[t].lookups > 0
      /\ CredentialOf(t) = {})
        => /\ tasks[t].status = 200
           /\ tasks[t].apiCalls = 0
           /\ tasks[t].nsaved = 0
           /\ \A i \in 1..Len(inserted) : inserted[i].messageId \notin KeptKeys(t)

\* A push for an unconnected mailbox and a direct message of an unconnected
\* workspace have both been looked up and answered.
C13_Witness ==
  /\ \E t \in TaskIds :
        /\ tasks[t].route = "gmail_webhook" /\ tasks[t].pc = "done"
        /\ tasks[t].lookups = 1 /\ CredentialOf(t) = {} /\ tasks[t].status = 200
  /\ \E t \in TaskIds :
        /\ tasks[t].route = "slack_webhook" /\ tasks[t].pc = "done"
        /\ tasks[t].lookups = 1 /\ CredentialOf(t) = {} /\ tasks[t].status = 200

\* The chat event of request t is no direct message, or is marked as coming from
\* a bot, or carries a subtype.
NotAPlainDirectMessage(t) ==
  LET body == JSONparse(tasks[t].req.raw)
  IN /\ body.type = "event_callback"
     /\ \/ body.event.type # "message"
        \/ body.event.channel_type # "im"
        \/ body.event.bot_id # Null
        \/ body.event.subtype # Null

\* C14: a chat event that is no direct message, or that carries a bot_id or a
\* subtype, stores no row, makes no credential lookup and is answered 200.
C14_OtherChatEventsIgnored ==
  \A t \in TaskIds :
     (tasks[t].route = "slack_webhook" /\ Handled(t) /\ NotAPlainDirectMessage(t))
        => /\ tasks[t].pc = "done"
           /\ tasks[t].status = 200
           /\ tasks[t].lookups = 0
           /\ tasks[t].nsaved = 0
           /\ tasks[t].args = NoArgs

\* An edited direct message and a channel message have both been answered.
C14_Witness ==
  /\ \E t \in TaskIds :
        /\ tasks[t].route = "slack_webhook" /\ tasks[t].pc = "done"
        /\ JSONparse(tasks[t].req.raw).event.subtype # Null
  /\ \E t \in TaskIds :
        /\ tasks[t].route = "slack_webhook" /\ tasks[t].pc = "done"
        /\ JSONparse(tasks[t].req.raw).event.channel_type = "channel"

\* C15: a url_verification request is answered with its challenge, verbatim, and
\* stores no row.
C15_ChallengeEchoed ==
  \A t \in TaskIds :
     (Handled(t) /\ JSONparse(tasks[t].req.raw).type = "url_verification")
        => /\ tasks[t].pc = "done"
           /\ tasks[t].status = 200
           /\ tasks[t].reply = JSONparse(tasks[t].req.raw).challenge
           /\ tasks[t].nsaved = 0
           /\ pending_actions = <<>>

\* A handshake carrying no signature was answered while a signing secret is set.
C15_Witness ==
  \E t \in TaskIds :
     /\ Handled(t) /\ SecretConfigured
     /\ JSONparse(tasks[t].req.raw).type = "url_verification"
     /\ tasks[t].req.signature = NoHeader
     /\ tasks[t].reply = "c-1"

----------------------------------------------------------------------------
(* Properties of the email filter and of the sender name (under SpecMail). *)

\* The message of the mailbox.
TheMail == mailbox["rt-1"][1]

\* Request t is a push or a sync that has answered without a provider failure.
MailHandled(t) ==
  /\ tasks[t].route \in {"gmail_webhook", "gmail_sync"}
  /\ tasks[t].pc = "done"
  /\ ~ProviderFailed(t)

\* C16: an email labelled CATEGORY_PROMOTIONS, CATEGORY_SOCIAL, CATEGORY_FORUMS,
\* SPAM or TRASH stores no row, an email without the INBOX label stores no row,
\* and an email labelled exactly INBOX is stored, by the push and by the sync.
C16_LabelFilter ==
  /\ (TheMail.labelIds \cap {"CATEGORY_PROMOTIONS", "CATEGORY_SOCIAL", "CATEGORY_FORUMS",
                             "SPAM", "TRASH"} # {}) => pending_actions = <<>>
  /\ ("INBOX" \notin TheMail.labelIds) => pending_actions = <<>>
  /\ (TheMail.labelIds = {"INBOX"})
        => \A t \in TaskIds :
              MailHandled(t)
                 => /\ tasks[t].status = 200
                    /\ \E i \in 1..Len(pending_actions) :
                          pending_actions[i].message_link = createGmailLink(TheMail.id)
                    /\ tasks[t].nsaved = 1 \/ tasks[t].saveResult = "skipped_duplicate"

\* A push and a sync have both fetched a message labelled INBOX and
\* CATEGORY_SOCIAL and answered, and nothing is stored.
C16_Witness ==
  /\ TheMail.labelIds = {"INBOX", "CATEGORY_SOCIAL"}
  /\ \E t \in TaskIds :
        tasks[t].route = "gmail_webhook" /\ MailHandled(t) /\ tasks[t].apiCalls = 2
  /\ \E t \in TaskIds :
        tasks[t].route = "gmail_sync" /\ MailHandled(t) /\ tasks[t].apiCalls = 2
  /\ pending_actions = <<>>

\* C17: the sender stored for a From header 'Display Name <address>' is the
\* display name without quote characters, and for 'address' or '<address>' it is
\* the address.
C17_SenderName ==
  \A c \in SenderCases :
     TheMail.from = c.from
        => \A i \in 1..Len(pending_actions) :
              /\ inserted[i].sender = c.sender
              /\ pending_actions[i].sender_name = c.sender

\* The message of a quoted display name has been stored.
C17_Witness ==
  /\ TheMail.from = "\"Ada Lovelace\" <b.c@mail.co.uk>"
  /\ Len(pending_actions) > 0
  /\ pending_actions[1].sender_name = "Ada Lovelace"

----------------------------------------------------------------------------
(* Properties of the chat summary (under SpecSummary). *)

\* The message text of the direct message of request t: event.text, or the
\* placeholder the handler puts for a message without text.
MessageText(t) ==
  LET text == JSONparse(tasks[t].req.raw).event.text
  IN IF text = Null \/ text = "" THEN "(No message text)" ELSE text

----------------------------------------------------------------------------
(* Properties of connecting accounts (under SpecConnect). *)

\* Request t is a sync or a watch whose credential lookup has been answered.
LookedUp(t) ==
  /\ tasks[t].route \in {"gmail_sync", "gmail_watch"}
  /\ tasks[t].lookups > 0

\* C19: a sync or a watch is answered 404 when no email credential is stored for
\* its user_id, and is not answered 404 when one or more are stored (after every
\* successful callback of that user, however many accounts the user connected).
C19_ReadAfterWrite ==
  \A t \in TaskIds :
     LookedUp(t)
        => /\ tasks[t].credRows = 0 => (tasks[t].pc = "done" /\ tasks[t].status = 404)
           /\ tasks[t].credRows > 0 => tasks[t].status # 404

\* C20: /auth/google, /auth/slack, /gmail/sync and /gmail/watch answer 400 to a
\* request without user_id, with no redirect, no credential lookup, no provider
\* call and no row written.
C20_MissingUserId ==
  \A t \in TaskIds :
     (/\ tasks[t].route \in {"auth_google", "auth_slack", "gmail_sync", "gmail_watch"}
      /\ tasks[t].pc # tasks[t].route \o "_start"
      /\ tasks[t].req.user_id \in {Null, ""})
        => /\ tasks[t].pc = "done"
           /\ tasks[t].status = 400
           /\ tasks[t].lookups = 0
           /\ tasks[t].apiCalls = 0
           /\ tasks[t].nsaved = 0
           /\ tasks[t].args = NoArgs

\* A consent request and a watch request without user_id have been answered 400.
C20_Witness ==
  /\ \E t \in TaskIds :
        /\ tasks[t].route = "auth_google" /\ tasks[t].req.user_id = Null
        /\ tasks[t].status = 400
  /\ \E t \in TaskIds :
        /\ tasks[t].route = "gmail_watch" /\ tasks[t].req.user_id = ""
        /\ tasks[t].status = 400

----------------------------------------------------------------------------
(* Properties of the credential tables (under SpecTenants). *)

\* C21: in every reachable state, whatever callbacks the tenants have completed,
\* the credential tables hold at most one credential per account: one row of
\* user_gmail_tokens per email address and one row of user_slack_tokens per
\* workspace (team_id).
C21_OneCredentialPerAccount ==
  /\ \A r1, r2 \in user_gmail_tokens :
        r1.email_address = r2.email_address => r1 = r2
  /\ \A r1, r2 \in user_slack_tokens :
        r1.team_id = r2.team_id => r1 = r2

\* The rows of the table that hold the conflict key of the row.
GmailRowsOf(table, email) == {r \in table : r.email_address = email}
SlackRowsOf(table, user_id, team_id) ==
  {r \in table : r.user_id = user_id /\ r.team_id = team_id}

\* C22: a callback whose upsert is answered for a conflict key that already has a
\* credential is answered 200 (it is not refused as a duplicate) and leaves
\* exactly one credential for that key, which holds the secret the provider has
\* just issued; and what a webhook's credential lookup returns is the secret of
\* a row that is stored for its key at that moment, so never a superseded one.
C22_ReauthorizationSupersedes ==
  [][\A t \in TaskIds :
       LET tk == tasks[t] IN
       /\ (/\ tk.pc = "callback_upsert" /\ tasks'[t].pc = "done"
           /\ GmailRowsOf(user_gmail_tokens, Grants[tk.req.code].email_address) # {})
            => /\ tasks'[t].status = 200
               /\ GmailRowsOf(user_gmail_tokens', Grants[tk.req.code].email_address)
                    = { [user_id |-> tk.user_id,
                         email_address |-> Grants[tk.req.code].email_address,
                         refresh_token |-> Grants[tk.req.code].refresh_token] }
       /\ (/\ tk.pc = "slack_upsert" /\ tasks'[t].pc = "done"
           /\ SlackRowsOf(user_slack_tokens, tk.user_id,
                          SlackGrants[tk.req.code].team_id) # {})
            => /\ tasks'[t].status = 200
               /\ SlackRowsOf(user_slack_tokens', tk.user_id,
                              SlackGrants[tk.req.code].team_id)
                    = { [user_id |-> tk.user_id,
                         team_id |-> SlackGrants[tk.req.code].team_id,
                         team_name |-> SlackGrants[tk.req.code].team_name,
                         bot_token |-> SlackGrants[tk.req.code].access_token] }
       /\ (tk.pc = "gmail_lookup" /\ tasks'[t].pc = "gmail_list")
            => GmailRowsOf(user_gmail_tokens, tk.req.data.emailAddress)
                 = { [user_id |-> tasks'[t].user_id,
                      email_address |-> tk.req.data.emailAddress,
                      refresh_token |-> tasks'[t].token] }
       /\ (tk.pc = "slack_lookup" /\ tasks'[t].pc = "slack_profile")
            => \E r \in user_slack_tokens :
                  /\ r.team_id = JSONparse(tk.req.raw).team_id
                  /\ r.user_id = tasks'[t].user_id
                  /\ r.bot_token = tasks'[t].token
    ]_vars

\* u1 has authorized its mailbox and its workspace once more: each table holds
\* the one row with the new secret, and a notification that arrived afterwards
\* was given the new refresh token.
C22_Witness ==
  /\ user_gmail_tokens =
       { [user_id |-> "u1", email_address |-> "ada@x.com", refresh_token |-> "rt-3"] }
  /\ \E t \in TaskIds :
        /\ tasks[t].route = "google_callback" /\ tasks[t].req.code = "code-c"
        /\ tasks[t].status = 200
  /\ \E t \in TaskIds :
        /\ tasks[t].route = "gmail_webhook" /\ tasks[t].lookups = 1
        /\ tasks[t].token = "rt-3"

----------------------------------------------------------------------------
(* Properties of the OAuth callbacks (under SpecCallback). *)

IsCallback(t) == tasks[t].route \in {"google_callback", "slack_callback"}

\* The callback t carries the state that the redirect of consent request c gave.
AnswersConsent(t, c) ==
  /\ IsCallback(t)
  /\ tasks[c].route \in {"auth_google", "auth_slack"}
  /\ tasks[c].status = 302
  /\ tasks[t].req.state = Given(StateOfRedirect(tasks[c].reply))

\* C23: decoding the state that /auth/{provider} encodes gives back the user_id,
\* for every user_id; a callback that carries the state of a consent request's
\* redirect decodes exactly the user_id of that request, and the credential its
\* upsert writes carries that user_id.
C23_StateCarriesUserId ==
  [][/\ \A user_id \in UserIds :
          DecodeState(EncodeState(user_id)) = [ok |-> TRUE, user_id |-> user_id]
     /\ \A t, c \in TaskIds :
          AnswersConsent(t, c) =>
            /\ (tasks[t].pc = tasks[t].route \o "_start" /\ tasks'[t] # tasks[t])
                 => /\ tasks'[t].pc # "done"
                    /\ tasks'[t].user_id = tasks[c].req.user_id
            /\ (tasks[t].pc = "callback_upsert" /\ tasks'[t].status = 200)
                 => \E r \in user_gmail_tokens' :
                       /\ r.user_id = tasks[c].req.user_id
                       /\ r.email_address = Grants[tasks[t].req.code].email_address
                       /\ r.refresh_token = Grants[tasks[t].req.code].refresh_token
            /\ (tasks[t].pc = "slack_upsert" /\ tasks'[t].status = 200)
                 => \E r \in user_slack_tokens' :
                       /\ r.user_id = tasks[c].req.user_id
                       /\ r.team_id = SlackGrants[tasks[t].req.code].team_id
                       /\ r.bot_token = SlackGrants[tasks[t].req.code].access_token
    ]_vars

\* A consent request for a user_id with a quote in it was redirected, the
\* callback came back with that state and stored a credential for that user_id.
C23_Witness ==
  \E t, c \in TaskIds :
     /\ AnswersConsent(t, c)
     /\ tasks[c].req.user_id = "o\"k"
     /\ tasks[t].status = 200
     /\ \E r \in user_slack_tokens : r.user_id = "o\"k" /\ r.team_id = "T1"

\* The provider refuses the code of callback t.
CodeRefused(t) ==
  IF tasks[t].route = "google_callback" THEN tasks[t].req.code \notin DOMAIN Grants
  ELSE tasks[t].req.code \notin DOMAIN SlackGrants

\* C24: a callback whose state cannot be decoded, whose code the provider
\* refuses or whose upsert the storage layer fails answers 500; a callback that
\* answers 500 leaves both credential tables as they were, and the tables change
\* only in the step in which a callback's upsert is answered and the callback
\* answers 200.
C24_FailedCallback ==
  [][/\ \A t \in TaskIds :
          (IsCallback(t) /\ tasks[t].pc # "done" /\ tasks'[t].pc = "done")
            => /\ tasks'[t].status \in {200, 500}
               /\ tasks'[t].status = 500
                    => /\ user_gmail_tokens' = user_gmail_tokens
                       /\ user_slack_tokens' = user_slack_tokens
               /\ (\/ StateThrows(tasks[t].req)
                   \/ CodeRefused(t)
                   \/ faultsLeft' < faultsLeft)
                    => tasks'[t].status = 500
     /\ (user_gmail_tokens' # user_gmail_tokens \/ user_slack_tokens' # user_slack_tokens)
          => \E t \in TaskIds :
                /\ IsCallback(t)
                /\ tasks[t].pc \in {"callback_upsert", "slack_upsert"}
                /\ tasks'[t].status = 200
                /\ ~StateThrows(tasks[t].req) /\ ~CodeRefused(t)
    ]_vars

\* One callback was refused its code and another failed in the upsert: both have
\* answered 500 and the tables are as they were at start-up.
C24_Witness ==
  /\ \E t \in TaskIds :
        /\ IsCallback(t) /\ CodeRefused(t) /\ ~StateThrows(tasks[t].req)
        /\ tasks[t].status = 500
  /\ \E t \in TaskIds :
        /\ IsCallback(t) /\ ~CodeRefused(t) /\ ~StateThrows(tasks[t].req)
        /\ tasks[t].status = 500
        /\ tasks[t].apiCalls = 1
        /\ tasks[t].route = "slack_callback"
  /\ faultsLeft < MaxFaults
  /\ user_gmail_tokens = GmailCredentials
  /\ user_slack_tokens = SlackCredentials

----------------------------------------------------------------------------
(* Properties of the pending_actions table (under SpecPending). *)

\* C25: no operation updates or deletes a stored PendingAction: in every step
\* every row of pending_actions stays in the table with all its field values.
C25_RowsKept ==
  [][\A i \in 1..Len(pending_actions) :
        \E j \in 1..Len(pending_actions') : pending_actions'[j] = pending_actions[i]
    ]_vars

\* C26: every insert into pending_actions is made by a task whose call of
\* isDuplicate for the record it inserts has returned false before: in every
\* step that adds a row, the task that adds it has that answer.
C26_InsertAfterCheck ==
  [][\A t \in TaskIds :
        tasks'[t].nsaved > tasks[t].nsaved
          => /\ tasks[t].dupAnswer = "no"
             /\ tasks[t].args = inserted'[Len(inserted')]
    ]_vars

----------------------------------------------------------------------------
(* Properties of the deduplication keys (under SpecMessageId and SpecKeys). *)

\* The key the duplicate check of an email is to decide on: its Message-ID
\* header, and the adapter's message id when it has no such header.
EmailKey(msg) == IF msg.messageId = "" THEN msg.id ELSE msg.messageId

\* C27: the duplicate check of a kept email decides on the email's Message-ID
\* header (on the adapter's message id when the header is absent): whenever
\* isDuplicate returns for an email, it answers "duplicate" exactly when a row
\* stored for an email with that key exists, whatever the adapter's ids are.
C27_EmailKeyIsMessageId ==
  [][\A t \in TaskIds :
        (/\ tasks[t].pc = "dedup"
         /\ tasks[t].args.platform = "gmail"
         /\ tasks'[t].dupAnswer # "none")
          => (tasks'[t].dupAnswer = "yes"
                <=> \E k \in 1..Len(inserted) :
                       /\ inserted[k].platform = "gmail"
                       /\ inserted[k].messageId = EmailKey(tasks[t].msgs[tasks[t].i]))
    ]_vars

\* The workspace, channel and timestamp of the direct message of request t.
EventTriple(t) ==
  LET body == JSONparse(tasks[t].req.raw)
  IN <<body.team_id, body.event.channel, body.event.ts>>

\* C28: the duplicate check treats two direct messages as the same message
\* exactly when they agree on workspace, channel and timestamp: whenever
\* isDuplicate returns for a direct message, it answers "duplicate" exactly when
\* a request with the same three values has stored its row; a message that
\* differs in one of them is never the reason for that answer.
C28_ChatKeyIsTriple ==
  [][\A t \in TaskIds :
        (/\ tasks[t].pc = "dedup"
         /\ tasks[t].args.platform = "slack"
         /\ tasks'[t].dupAnswer # "none")
          => (tasks'[t].dupAnswer = "yes"
                <=> \E u \in TaskIds :
                       /\ tasks[u].nsaved > 0
                       /\ EventTriple(u) = EventTriple(t))
    ]_vars

\* A message was stored and its redelivery was answered "duplicate".
C28_Witness ==
  \E t, u \in TaskIds :
     /\ t # u
     /\ tasks[t].nsaved = 1
     /\ tasks[u].dupAnswer = "yes"
     /\ EventTriple(t) = EventTriple(u)
     /\ Len(pending_actions) = 1

----------------------------------------------------------------------------
(* Properties of the chat adapter (under SpecRace and SpecTenants). *)

\* C29: when the users.info call of a direct message throws or is answered not
\* ok, saveToSupabase is called with the raw user id as the sender, the handler
\* goes on to the duplicate check and the insert, and once it has answered, the
\* answer is 200 and a row for the message is stored.
C29_ProfileFailureFallsBack ==
  \A t \in TaskIds :
     tasks[t].profile \in {"threw", "not_ok"}
       => /\ tasks[t].args.sender = JSONparse(tasks[t].req.raw).event.user
          /\ tasks[t].pc \in {"dedup", "insert", "done"}
          /\ tasks[t].pc # "dedup" => tasks[t].dupAnswer # "none"
          /\ tasks[t].pc = "done"
               => /\ tasks[t].status = 200
                  /\ SameMessageStored(inserted, tasks[t].args)

\* One message whose lookup threw and one whose lookup was answered not ok have
\* both been stored under the raw user id.
C29_Witness ==
  /\ \E t \in TaskIds :
        /\ tasks[t].profile = "threw" /\ tasks[t].nsaved = 1
        /\ tasks[t].args.sender = "U1"
  /\ \E t \in TaskIds :
        /\ tasks[t].profile = "not_ok" /\ tasks[t].nsaved = 1
        /\ tasks[t].args.sender = "U1"

\* C30: a direct message whose team_id matches at least one stored chat
\* credential when the handler looks the tenant up is not dropped as unknown
\* tenant and is resolved to the user_id of a credential stored for that team_id.
C30_KnownWorkspaceResolved ==
  \A t \in TaskIds :
     (/\ tasks[t].route = "slack_webhook"
      /\ tasks[t].lookups > 0
      /\ tasks[t].credRows >= 1)
       => /\ "log:no_user" \notin tasks[t].log
          /\ \E r \in user_slack_tokens :
                /\ r.team_id = JSONparse(tasks[t].req.raw).team_id
                /\ r.user_id = tasks[t].user_id

----------------------------------------------------------------------------
(* Properties of the provider clients (under SpecShared). *)

\* The secrets of request t's provider calls are the one credential the request
\* looked up, and no more than one.
OwnSecretOnly(tk) ==
  /\ Cardinality(tk.used) <= 1
  /\ tk.route = "gmail_webhook" => tk.used \subseteq {tk.token}

\* C31: no step of a handler changes the credentials held by a provider client
\* that requests share, and all provider calls made for one request use the one
\* secret of the credential that request looked up.
C31_NoSharedClient ==
  [][/\ oauth2Client' = oauth2Client
     /\ \A t \in TaskIds : OwnSecretOnly(tasks'[t])]_vars

\* On the multi-user server alone the property holds.
C31_MultiUserOnly ==
  [][server = "multi" =>
       /\ oauth2Client' = oauth2Client
       /\ \A t \in TaskIds : OwnSecretOnly(tasks'[t])]_vars

\* A request on the single-user server has made provider calls with two secrets.
C31_TwoSecrets ==
  \E t \in TaskIds : Cardinality(tasks[t].used) > 1

----------------------------------------------------------------------------
(* Properties of the email push handlers (under SpecShared). *)

IsPush(tk) == tk.route \in {"gmail_webhook", "legacy_gmail_webhook"}

\* The positions in the request's message list that messages.get has been
\* called for.
Examined(tk) ==
  {k \in 1..Len(tk.msgs) :
     k < tk.i \/ (k = tk.i /\ tk.pc \notin {"gmail_get", "legacy_get"})}

\* The push handler has gone through its whole loop and answered.
PushCompleted(tk) ==
  IsPush(tk) /\ tk.pc = "done" /\ tk.status = 200 /\ tk.reply = "OK" /\ tk.used # {}

\* C32: a push handler examines no message added at or before the cursor
\* (historyId) of its notification, and once it has gone through its loop it has
\* examined every message added to the mailbox after the cursor.
C32_OnlySinceCursor ==
  \A t \in TaskIds :
     IsPush(tasks[t]) =>
       /\ \A k \in Examined(tasks[t]) :
             tasks[t].msgs[k].historyId > tasks[t].req.data.historyId
       /\ PushCompleted(tasks[t]) =>
             \A j \in 1..Len(mailbox[tasks[t].token]) :
                mailbox[tasks[t].token][j].historyId > tasks[t].req.data.historyId
                  => \E k \in Examined(tasks[t]) :
                        tasks[t].msgs[k].id = mailbox[tasks[t].token][j].id

\* On the single-user server alone the property holds.
C32_LegacyOnly == server = "legacy" => C32_OnlySinceCursor

\* A push on the single-user server has gone through a loop over two messages.
C32_LegacyWitness ==
  \E t \in TaskIds :
     /\ tasks[t].route = "legacy_gmail_webhook"
     /\ PushCompleted(tasks[t])
     /\ Cardinality(Examined(tasks[t])) = 2

----------------------------------------------------------------------------
(* Properties of the chat webhook's verification (under SpecAuth). *)

\* Request t has been through verifySlackSignature with no signing secret
\* configured.
VerifiedUnconfigured(t) ==
  /\ tasks[t].route = "slack_webhook"
  /\ tasks[t].verified # "none"
  /\ env.SLACK_SIGNING_SECRET = Null

IsWarning(entry) == Len(entry) >= 5 /\ SubSeq(entry, 1, 5) = "warn:"

\* C33: with no signing secret configured verifySlackSignature accepts the
\* request whatever its timestamp and signature, and the request's log has a
\* warning-level entry for the skipped verification.
C33_UnconfiguredAcceptsAndWarns ==
  \A t \in TaskIds :
     VerifiedUnconfigured(t) =>
       /\ tasks[t].verified = "true"
       /\ \E entry \in tasks[t].log : IsWarning(entry)

\* The first half alone: the request is accepted.
C33_UnconfiguredAccepts ==
  \A t \in TaskIds : VerifiedUnconfigured(t) => tasks[t].verified = "true"

\* A request with a stale timestamp has been accepted with no secret configured.
C33_AcceptedStale ==
  \E t \in TaskIds :
     /\ VerifiedUnconfigured(t)
     /\ tasks[t].verified = "true"
     /\ IsStale(tasks[t].req.timestamp, tasks[t].at)

----------------------------------------------------------------------------
(* Properties of a failing duplicate check (under SpecDedup). *)

\* C34: when the query of the duplicate check fails, isDuplicate answers false
\* and saveToSupabase goes on to the insert; the message is then stored unless
\* the insert itself fails, and is never skipped.
C34_DedupFailsOpen ==
  \A t \in TaskIds :
     tasks[t].dupErr =>
       /\ tasks[t].dupAnswer = "no"
       /\ \/ tasks[t].pc = "insert" /\ tasks[t].saveResult = "none"
          \/ tasks[t].saveResult = "saved"
          \/ tasks[t].saveResult = "threw" /\ "error:insert" \in tasks[t].log

\* A message whose duplicate check failed has been stored.
C34_Witness ==
  \E t \in TaskIds :
     /\ tasks[t].dupErr
     /\ tasks[t].saveResult = "saved"
     /\ \E k \in 1..Len(inserted) : inserted[k] = tasks[t].args

----------------------------------------------------------------------------
(* Properties of the order of verification and work (under SpecAuth). *)

\* Request t has had a tenant lookup, a profile lookup, a duplicate check or an
\* insert made for it, or is about to.
WorkedOn(tk) ==
  \/ tk.pc \in {"slack_lookup", "slack_profile", "dedup", "insert"}
  \/ tk.lookups > 0
  \/ tk.profile # "none"
  \/ tk.apiCalls > 0
  \/ tk.dupAnswer # "none"
  \/ tk.saveResult # "none"

\* C35: in /slack/webhook the tenant lookup, the profile lookup and the insert
\* happen only for a request verifySlackSignature returned true for, and the only
\* answer given without verification is the echo of a url_verification
\* challenge, whatever the request's timestamp and signature.
C35_VerifiedBeforeWork ==
  \A t \in TaskIds :
     tasks[t].route = "slack_webhook" =>
       /\ WorkedOn(tasks[t]) => tasks[t].verified = "true"
       /\ (tasks[t].pc = "done" /\ tasks[t].verified = "none") =>
             /\ JSONparse(tasks[t].req.raw).type = "url_verification"
             /\ tasks[t].status = 200
             /\ tasks[t].reply = JSONparse(tasks[t].req.raw).challenge
       /\ (tasks[t].pc = "done" /\ JSONparse(tasks[t].req.raw).type = "url_verification")
             => tasks[t].verified = "none"

\* With a secret configured, a challenge with a wrong signature has been echoed.
C35_EchoedUnverified ==
  \E t \in TaskIds :
     /\ tasks[t].route = "slack_webhook"
     /\ tasks[t].pc = "done"
     /\ env.SLACK_SIGNING_SECRET # Null
     /\ JSONparse(tasks[t].req.raw).type = "url_verification"
     /\ verifySlackSignature(tasks[t].req, env.SLACK_SIGNING_SECRET, tasks[t].at) # "true"

\* With a secret configured, a verified direct message has been stored.
C35_Witness ==
  \E t \in TaskIds :
     /\ tasks[t].route = "slack_webhook"
     /\ env.SLACK_SIGNING_SECRET # Null
     /\ tasks[t].verified = "true"
     /\ tasks[t].nsaved > 0

----------------------------------------------------------------------------
(* Properties of the label filter (under SpecLabels). *)

\* The labels as the claim lists them: INBOX and none of the six.
InboxAndNoneExcluded(labelIds) ==
  /\ "INBOX" \in labelIds
  /\ labelIds \cap {"CATEGORY_PROMOTIONS", "CATEGORY_SOCIAL", "CATEGORY_UPDATES",
                    "CATEGORY_FORUMS", "SPAM", "TRASH"} = {}

\* C36: shouldIncludeEmail is true exactly for the label sets that contain INBOX
\* and none of the six excluded labels; a push that has fetched the message
\* hands it to saveToSupabase exactly then, and a message labelled INBOX and
\* CATEGORY_UPDATES is dropped.
C36_InboxAndNoneExcluded ==
  /\ \A S \in SUBSET AllLabels : shouldIncludeEmail(S) <=> InboxAndNoneExcluded(S)
  /\ \A t \in TaskIds :
        (tasks[t].route = "gmail_webhook" /\ Examined(tasks[t]) # {}
           /\ ~ProviderFailed(t))
          => /\ tasks[t].args # NoArgs <=> InboxAndNoneExcluded(TheMail.labelIds)
             /\ tasks[t].nfiltered = 1 <=> ~InboxAndNoneExcluded(TheMail.labelIds)
             /\ {"INBOX", "CATEGORY_UPDATES"} \subseteq TheMail.labelIds
                   => tasks[t].args = NoArgs /\ pending_actions = <<>>

\* A push has fetched a message labelled INBOX and CATEGORY_UPDATES and answered,
\* and nothing is stored.
C36_Witness ==
  /\ TheMail.labelIds = {"INBOX", "CATEGORY_UPDATES"}
  /\ \E t \in TaskIds :
        /\ tasks[t].route = "gmail_webhook"
        /\ tasks[t].pc = "done"
        /\ Examined(tasks[t]) # {}
        /\ ~ProviderFailed(t)
        /\ tasks[t].nfiltered = 1
  /\ pending_actions = <<>>

----------------------------------------------------------------------------
(* Properties of a push whose loop throws (under SpecShared). *)

\* The catch block of push t has run.
PushCaught(tk) == IsPush(tk) /\ ("error:" \o tk.route) \in tk.log

\* A row for the message at position k of the request's list has been inserted.
RowFor(tk, k) ==
  \E n \in 1..Len(inserted) : inserted[n].url = createGmailLink(tk.msgs[k].id)

\* C37: when a provider call or the insert throws for the k-th message of a
\* push, the handler answers 200 at once: no message after the k-th is fetched,
\* checked or stored by it, and the rows stored for the messages before the k-th
\* are still there.
C37_AbortKeepsEarlier ==
  \A t \in TaskIds :
     PushCaught(tasks[t]) =>
       /\ tasks[t].pc = "done"
       /\ tasks[t].status = 200
       /\ tasks[t].reply = "Error logged"
       /\ tasks[t].apiCalls <= tasks[t].i + 1
       /\ tasks[t].nsaved < Max({tasks[t].i, 1})
       /\ \A k \in 1..Len(tasks[t].msgs) : k < tasks[t].i => RowFor(tasks[t], k)
       /\ Len(pending_actions) = Len(inserted)

\* A push over three messages has thrown at the second: the first is stored, the
\* third is not.
C37_Witness ==
  \E t \in TaskIds :
     /\ PushCaught(tasks[t])
     /\ Len(tasks[t].msgs) = 3
     /\ tasks[t].i = 2
     /\ tasks[t].nsaved = 1
     /\ RowFor(tasks[t], 1)
     /\ ~RowFor(tasks[t], 3)

----------------------------------------------------------------------------
(* Properties of a mailbox connected by a second tenant (under SpecReassign). *)

\* The tenants that hold a credential for the address.
OwnersOf(table, email) == {r.user_id : r \in GmailRowsOf(table, email)}

\* C38: a callback completed by tenant B for an address stored for tenant A
\* leaves the address's one row with B's user_id and the newly issued refresh
\* token; from then on a push for the address is resolved to B and stores its
\* row for B, and a sync or a watch of A, who has no row left, is answered 404.
C38_ReassignedToLastCaller ==
  [][\A t \in TaskIds :
       LET tk == tasks[t] IN
       /\ (/\ tk.pc = "callback_upsert" /\ tasks'[t].pc = "done"
           /\ tasks'[t].status = 200
           /\ OwnersOf(user_gmail_tokens, Grants[tk.req.code].email_address)
                 \ {tk.user_id} # {})
            => /\ GmailRowsOf(user_gmail_tokens', Grants[tk.req.code].email_address)
                    = { [user_id |-> tk.user_id,
                         email_address |-> Grants[tk.req.code].email_address,
                         refresh_token |-> Grants[tk.req.code].refresh_token] }
               /\ \A a \in OwnersOf(user_gmail_tokens, Grants[tk.req.code].email_address)
                         \ {tk.user_id} :
                     {r \in user_gmail_tokens' : r.user_id = a} = {}
       /\ (/\ tk.route = "gmail_webhook" /\ tk.pc = "gmail_lookup"
           /\ tasks'[t].pc # "gmail_lookup"
           /\ OwnersOf(user_gmail_tokens, tk.req.data.emailAddress) = {"u2"})
            => tasks'[t].pc = "gmail_list" /\ tasks'[t].user_id = "u2"
       /\ (/\ tk.route = "gmail_webhook" /\ tk.pc = "insert" /\ tk.user_id = "u2"
           /\ tasks'[t].pc # "insert")
            => /\ Len(pending_actions') = Len(pending_actions) + 1
               /\ pending_actions'[Len(pending_actions')].user_id = "u2"
       /\ (/\ tk.route \in {"gmail_sync", "gmail_watch"}
           /\ tk.pc \in {"gmail_lookup", "gmail_watch_lookup"}
           /\ tasks'[t].pc # tk.pc
           /\ {r \in user_gmail_tokens : r.user_id = tk.req.user_id} = {})
            => tasks'[t].pc = "done" /\ tasks'[t].status = 404
    ]_vars

\* u2 has completed the callback for u1's mailbox; a push for the mailbox has
\* then stored its row for u2.
C38_Witness ==
  /\ user_gmail_tokens =
       { [user_id |-> "u2", email_address |-> "ada@x.com", refresh_token |-> "rt-3"] }
  /\ \E t \in TaskIds :
        /\ tasks[t].route = "google_callback" /\ tasks[t].status = 200
  /\ \E t \in TaskIds :
        /\ tasks[t].route = "gmail_webhook" /\ tasks[t].user_id = "u2"
        /\ tasks[t].nsaved = 1
        /\ pending_actions[Len(pending_actions)].user_id = "u2"

\* u2 has completed the callback for u1's mailbox; a sync of u1 has then been
\* answered 404, and so has a watch of u1.
C38_SyncNotFound ==
  /\ \E t \in TaskIds :
        /\ tasks[t].route = "google_callback" /\ tasks[t].status = 200
  /\ \E t \in TaskIds :
        /\ tasks[t].route = "gmail_sync" /\ tasks[t].req.user_id = "u1"
        /\ tasks[t].status = 404

C38_WatchNotFound ==
  /\ \E t \in TaskIds :
        /\ tasks[t].route = "google_callback" /\ tasks[t].status = 200
  /\ \E t \in TaskIds :
        /\ tasks[t].route = "gmail_watch" /\ tasks[t].req.user_id = "u1"
        /\ tasks[t].status = 404

----------------------------------------------------------------------------
(* Properties of deduplication across tenants (under SpecForeign). *)

\* The rows stored with the key and platform of the request's message.
RowsWithKey(table, args) ==
  {i \in 1..Len(table) :
     /\ table[i].message_link = args.url
     /\ table[i].platform_tag = args.platform}

\* The stored state SpecForeign starts from is one a push for u1 leaves behind.
C39_StartReached ==
  /\ pending_actions = << NewRow("multi", 1, StoredForFirstTenant, Epoch) >>
  /\ inserted = << StoredForFirstTenant >>
  /\ user_gmail_tokens = GmailCredentials

\* C39: the duplicate check looks at key and platform only: when a row with the
\* key and platform of an event is stored for one tenant, and the event is
\* resolved to another tenant, saveToSupabase skips it as a duplicate and no row
\* is stored for that tenant.
C39_DedupAcrossTenants ==
  [][\A t \in TaskIds :
       LET tk == tasks[t] IN
       (/\ tk.pc = "dedup" /\ tasks'[t].pc # "dedup"
        /\ RowsWithKey(pending_actions, tk.args) # {}
        /\ \A i \in RowsWithKey(pending_actions, tk.args) :
              pending_actions[i].user_id # tk.args.user_id)
         => /\ tasks'[t].dupAnswer = "yes"
            /\ tasks'[t].saveResult = "skipped_duplicate"
            /\ tasks'[t].nsaved = 0
            /\ pending_actions' = pending_actions
            /\ \A i \in 1..Len(pending_actions') :
                  pending_actions'[i].user_id # tk.args.user_id
    ]_vars

\* A push resolved to u2 has been answered with its message skipped as a
\* duplicate of the row stored for u1, and u2 has no row.
C39_Witness ==
  /\ \E t \in TaskIds :
        /\ tasks[t].route = "gmail_webhook"
        /\ tasks[t].pc = "done"
        /\ tasks[t].user_id = "u2"
        /\ tasks[t].args.user_id = "u2"
        /\ tasks[t].saveResult = "skipped_duplicate"
        /\ pending_actions[CHOOSE i \in RowsWithKey(pending_actions, tasks[t].args) : TRUE]
             .user_id = "u1"
  /\ \A i \in 1..Len(pending_actions) : pending_actions[i].user_id # "u2"

====
